---------------------------- MODULE Spec2Model ----------------------------
(***************************************************************************)
(* Model of the gorm-seed core (package gorm_seed): the global seeder      *)
(* registry guarded by a sync.RWMutex, the error types, and the executor   *)
(* RunAll / RunAllWithOptions / RunSpecific.                               *)
(*                                                                         *)
(* Every goroutine is a thread of the model with a program counter pc[t]   *)
(* and a stack of return labels, so that RunAllWithOptions calling GetAll, *)
(* RunSpecific calling GetByName and a Seed body calling Register or Clear *)
(* all run the same registry code as a top-level caller does.              *)
(***************************************************************************)
EXTENDS Naturals, Sequences, FiniteSets

(***************************************************************************)
(* Bounds of the model.                                                    *)
(***************************************************************************)
\* Register calls made in one behaviour of the concurrent specification
\* (each constructs a fresh seeder)
MaxRegs == 2
\* Register calls made in one behaviour of the sequential specification
SeqMaxRegs == 3
\* goroutines of the concurrent-registration scenario
NumCallers == 3
\* failures a caller adds to one SeederErrors
MaxErrs == 3
MaxCalls == 3

\* the goroutines calling into the package
Threads == {1, 2}

(***************************************************************************)
(* Inputs.  A seeder name is a string, modelled as the sequence of its     *)
(* bytes so that Go's byte-wise string comparison is computed, not         *)
(* assumed: "10" < "2" although 10 > 2, and "1" < "10" (a proper prefix).  *)
(***************************************************************************)
Names == {<<1>>, <<1, 0>>, <<2>>}
\* two of them, for the specification with two goroutines
TwoNames == {<<1, 0>>, <<2>>}
\* the error values a Seed body may return; NoErr is Go's nil error
NoErr == "nil"
Causes == {"e1", "e2"}
\* a single cause, for the specification with concurrent runs
OneCause == {"e1"}

\* The zero value of a Seeder interface slot, as make([]Seeder, n) fills it.
NilSeeder == [id |-> 0, name |-> <<>>]
\* A seeder value: a pointer (its identity) to a struct whose Name() is stable.
Seeder(i, n) == [id |-> i, name |-> n]

\* RunOptions: ContinueOnError and which of the three callbacks are non-nil.
RunOptions(c, s, k, e) ==
    [ContinueOnError |-> c, OnSeederStart |-> s,
     OnSeederComplete |-> k, OnSeederError |-> e]
AllOptions ==
    {RunOptions(c, s, k, e) : c \in BOOLEAN, s \in BOOLEAN, k \in BOOLEAN, e \in BOOLEAN}
\* the options used where several runs interleave: both policies, callbacks
\* all present or all absent
FewOptions ==
    {RunOptions(c, s, s, s) : c \in BOOLEAN, s \in BOOLEAN}
\* what RunAll passes: RunOptions{ContinueOnError: false}
DefaultOptions == RunOptions(FALSE, FALSE, FALSE, FALSE)

\* The inputs a specification draws from: names, options, causes, and how many
\* seeders are constructed.
\* A run is also given a *gorm.DB and a map of dependencies, both the
\* caller's: a handle is a pointer (0: nil), a map is a reference (0: the nil
\* map) to the keys it holds.
Handles == {1, 2}
Maps == {1}
OneHandle == {1}
NoParams == [db |-> 0, deps |-> 0]

SeqInputs ==
    [Names |-> Names, Options |-> AllOptions, Causes |-> Causes, MaxRegs |-> SeqMaxRegs,
     Handles |-> OneHandle, Deps |-> Maps]
ConcInputs ==
    [Names |-> TwoNames, Options |-> FewOptions, Causes |-> OneCause, MaxRegs |-> MaxRegs,
     Handles |-> OneHandle, Deps |-> Maps]
\* two handles, and the dependencies nil or a map
DepsInputs ==
    [Names |-> TwoNames, Options |-> FewOptions, Causes |-> OneCause, MaxRegs |-> MaxRegs,
     Handles |-> Handles, Deps |-> {0} \cup Maps]

VARIABLES
    seeders,   \* registry.seeders: the stored seeders in insertion order
    mu,        \* registry.mu: the writer holding it (0: none) and the readers
    pc,        \* pc[t]: the statement thread t executes next
    stack,     \* stack[t]: return labels of the calls t is inside
    arg,       \* arg[t]: the argument of the registry call t is inside
    tmp,       \* tmp[t]: the local slice of Register's append / GetAll's copy
    ret,       \* ret[t]: the value the last registry call of t returned
    opts,      \* opts[t]: the RunOptions of t's batch run
    snap,      \* snap[t]: the slice GetAll returned to t's run
    idx,       \* idx[t]: position of the run's for-range loop (1-based)
    errs,      \* errs[t]: the run's SeederErrors.Errors
    err,       \* err[t]: what the Seed call in progress returned
    log,       \* log[t]: the Seed and callback invocations of t's run, in order
    result,    \* result[t]: the error value the run returned
    params,    \* params[t]: the db and deps parameters of the run t is inside
    bags,      \* bags[b]: the keys of the caller's dependency map b
    nextId,    \* identity of the next seeder constructed
    regsDone,  \* history: Register calls completed since the last completed Clear
    files,     \* the entries of the directory CreateSeeder writes to
    calls      \* history: what each CreateSeeder call was given and returned

vars == <<seeders, mu, pc, stack, arg, tmp, ret, opts, snap, idx, errs, err,
          log, result, params, bags, nextId, regsDone, files, calls>>

registryVars == <<seeders, mu>>
runVars == <<opts, snap, idx, errs, err, log, result>>
\* what the caller of a run passes in and owns
depVars == <<params, bags>>
\* the file system CreateSeeder works on, and what its calls returned
fsVars == <<files, calls>>

(***************************************************************************)
(* Values                                                                  *)
(***************************************************************************)
NoArg == [kind |-> "none", seeder |-> NilSeeder, name |-> <<>>]
SeederArg(s) == [kind |-> "seeder", seeder |-> s, name |-> <<>>]
NameArg(n) == [kind |-> "name", seeder |-> NilSeeder, name |-> n]

NoRet ==
    [kind |-> "none", n |-> 0, seeder |-> NilSeeder, name |-> <<>>, slice |-> <<>>,
     msg |-> <<>>, err |-> NoErr]
IntRet(n) == [NoRet EXCEPT !.kind = "int", !.n = n]
SliceRet(s) == [NoRet EXCEPT !.kind = "slice", !.slice = s]
SeederRet(s) == [NoRet EXCEPT !.kind = "seeder", !.seeder = s]
\* fmt.Errorf("seeder not found: %s", name)
NotFoundRet(n) == [NoRet EXCEPT !.kind = "notfound", !.name = n]
\* the string Error() returned
StringRet(s) == [NoRet EXCEPT !.kind = "string", !.msg = s]
\* the error errors.Unwrap returned (nil included)
ErrorRet(c) == [NoRet EXCEPT !.kind = "error", !.err = c]

\* &SeederError{SeederName, Err}
SeederError(n, c) == [SeederName |-> n, Err |-> c]

\* The error value a run returns.
NoResult == [kind |-> "none", name |-> <<>>, cause |-> NoErr, errors |-> <<>>]
NilResult == [kind |-> "nil", name |-> <<>>, cause |-> NoErr, errors |-> <<>>]
SeederErrorResult(e) ==
    [kind |-> "SeederError", name |-> e.SeederName, cause |-> e.Err, errors |-> <<>>]
SeederErrorsResult(es) ==
    [kind |-> "SeederErrors", name |-> <<>>, cause |-> NoErr, errors |-> es]
NotFoundResult(n) ==
    [kind |-> "notfound", name |-> n, cause |-> NoErr, errors |-> <<>>]

\* One entry of the run's observable trace.
\* "seed": Seed is entered on a seeder; "ret": that Seed returns c
SeedEvent(s, p) ==
    [k |-> "seed", id |-> s.id, name |-> s.name, c |-> NoErr, db |-> p.db, deps |-> p.deps]
RetEvent(c) == [k |-> "ret", id |-> 0, name |-> <<>>, c |-> c, db |-> 0, deps |-> 0]
StartEvent(n) == [k |-> "start", id |-> 0, name |-> n, c |-> NoErr, db |-> 0, deps |-> 0]
CompleteEvent(n) ==
    [k |-> "complete", id |-> 0, name |-> n, c |-> NoErr, db |-> 0, deps |-> 0]
ErrorEvent(n, c) == [k |-> "error", id |-> 0, name |-> n, c |-> c, db |-> 0, deps |-> 0]
\* "add": the caller calls Add(n, c) on a SeederErrors of its own
AddEvent(n, c) == [k |-> "add", id |-> 0, name |-> n, c |-> c, db |-> 0, deps |-> 0]

(***************************************************************************)
(* Pure functions                                                          *)
(***************************************************************************)
\* Go's < on strings: byte-wise lexicographic, a proper prefix is smaller.
RECURSIVE StrLess(_, _)
StrLess(a, b) ==
    IF b = <<>> THEN FALSE
    ELSE IF a = <<>> THEN TRUE
    ELSE IF a[1] # b[1] THEN a[1] < b[1]
    ELSE StrLess(Tail(a), Tail(b))

\* Mutant: the comparison is the wrong way round.
Less_Reversed(x, y) == StrLess(y.name, x.name)

\* the less function GetAll hands to sort.Slice
Less(x, y) == StrLess(x.name, y.name)

Swap(s, i, j) == [s EXCEPT ![i] = s[j], ![j] = s[i]]

\* sort.Slice on a slice of at most 12 elements is an insertion sort:
\* for i := 1; i < n; i++ { for j := i; j > 0 && less(j, j-1); j-- { swap } }
RECURSIVE SinkDown(_, _)
SinkDown(s, j) ==
    IF j > 1 /\ Less(s[j], s[j - 1]) THEN SinkDown(Swap(s, j, j - 1), j - 1) ELSE s

RECURSIVE InsertionSort(_, _)
InsertionSort(s, i) ==
    IF i > Len(s) THEN s ELSE InsertionSort(SinkDown(s, i), i + 1)

SortSlice(s) == InsertionSort(s, 2)

\* make([]Seeder, n)
MakeSlice(n) == [i \in 1 .. n |-> NilSeeder]

\* copy(dst, src): copies min(len(dst), len(src)) elements
CopySlice(dst, src) ==
    [i \in 1 .. Len(dst) |-> IF i <= Len(src) THEN src[i] ELSE dst[i]]

\* Mutant: the loop starts at the second stored seeder.
FirstMatch_SkipFirst(s, name) ==
    IF \E i \in 2 .. Len(s) : s[i].name = name
    THEN LET i == CHOOSE i \in 2 .. Len(s) :
                      /\ s[i].name = name
                      /\ \A j \in 2 .. (i - 1) : s[j].name # name
         IN SeederRet(s[i])
    ELSE NotFoundRet(name)

\* Mutant: the loop does not return at its first match, the last match wins.
FirstMatch_Last(s, name) ==
    IF \E i \in 1 .. Len(s) : s[i].name = name
    THEN LET i == CHOOSE i \in 1 .. Len(s) :
                      /\ s[i].name = name
                      /\ \A j \in (i + 1) .. Len(s) : s[j].name # name
         IN SeederRet(s[i])
    ELSE NotFoundRet(name)

\* GetByName's loop: the first stored seeder whose Name() equals name
FirstMatch(s, name) ==
    IF \E i \in 1 .. Len(s) : s[i].name = name
    THEN LET i == CHOOSE i \in 1 .. Len(s) :
                      /\ s[i].name = name
                      /\ \A j \in 1 .. (i - 1) : s[j].name # name
         IN SeederRet(s[i])
    ELSE NotFoundRet(name)

\* Mutant: Add overwrites the collection instead of appending to it.
Add_Overwrite(es, n, c) == <<SeederError(n, c)>>

\* (*SeederErrors).Add
Add(es, n, c) == Append(es, SeederError(n, c))

\* (*SeederErrors).HasErrors
HasErrors(es) == Len(es) > 0

\* A string built by fmt.Sprintf, as the sequence of its pieces: the literal
\* text of the format, a name (%s), a number (%d), an error's message (%v).
Text(s) == [t |-> "text", s |-> s, b |-> <<>>, n |-> 0]
Str(b) == [t |-> "%s", s |-> "", b |-> b, n |-> 0]
Num(n) == [t |-> "%d", s |-> "", b |-> <<>>, n |-> n]
\* %v of an error made by errors.New(c): its text
Val(c) == [t |-> "%v", s |-> c, b |-> <<>>, n |-> 0]

\* (*SeederError).Error
SeederError_Error(e) ==
    <<Text("seeder "), Str(e.SeederName), Text(" failed: "), Val(e.Err)>>

\* Mutant: the message names the failure added last.
SeederErrors_Error_Last(es) ==
    IF Len(es) = 0 THEN <<Text("no errors")>>
    ELSE IF Len(es) = 1 THEN SeederError_Error(es[1])
    ELSE <<Num(Len(es)), Text(" seeders failed: "), Str(es[Len(es)].SeederName),
           Text(" (and "), Num(Len(es) - 1), Text(" more)")>>

\* (*SeederErrors).Error
SeederErrors_Error(es) ==
    IF Len(es) = 0 THEN <<Text("no errors")>>
    ELSE IF Len(es) = 1 THEN SeederError_Error(es[1])
    ELSE <<Num(Len(es)), Text(" seeders failed: "), Str(es[1].SeederName),
           Text(" (and "), Num(Len(es) - 1), Text(" more)")>>

\* err.Error() on an error value of the package
Error(r) ==
    IF r.kind = "SeederError" THEN SeederError_Error(SeederError(r.name, r.cause))
    ELSE SeederErrors_Error(r.errors)

\* Mutant: Unwrap returns nil.
SeederError_Unwrap_Nil(e) == NoErr

\* (*SeederError).Unwrap
SeederError_Unwrap(e) == e.Err

\* errors.Unwrap(err) on an error value of the package: the result of the
\* type's Unwrap method, nil for a type without one.  *SeederErrors has no
\* Unwrap method.
Unwrap(r) ==
    IF r.kind = "SeederError" THEN SeederError_Unwrap(SeederError(r.name, r.cause))
    ELSE NoErr

(***************************************************************************)
(* sync.RWMutex                                                            *)
(***************************************************************************)
Lock(t) ==
    /\ mu.writer = 0
    /\ mu.readers = {}
    /\ mu' = [mu EXCEPT !.writer = t]

RLock(t) ==
    /\ mu.writer = 0
    /\ mu' = [mu EXCEPT !.readers = @ \cup {t}]

Unlock(t) == mu' = [mu EXCEPT !.writer = IF @ = t THEN 0 ELSE @]

RUnlock(t) == mu' = [mu EXCEPT !.readers = @ \ {t}]

(***************************************************************************)
(* Calls and returns                                                       *)
(***************************************************************************)
\* thread t enters a function at label entry and will come back to label back
Call(t, entry, back) ==
    /\ pc' = [pc EXCEPT ![t] = entry]
    /\ stack' = [stack EXCEPT ![t] = <<back>> \o @]

\* thread t returns to its caller
Return(t) ==
    /\ pc' = [pc EXCEPT ![t] = Head(stack[t])]
    /\ stack' = [stack EXCEPT ![t] = Tail(@)]

Goto(t, label) ==
    /\ pc' = [pc EXCEPT ![t] = label]
    /\ UNCHANGED stack

Init ==
    /\ seeders = <<>>
    /\ mu = [writer |-> 0, readers |-> {}]
    /\ pc = [t \in Threads |-> "idle"]
    /\ stack = [t \in Threads |-> <<>>]
    /\ arg = [t \in Threads |-> NoArg]
    /\ tmp = [t \in Threads |-> <<>>]
    /\ ret = [t \in Threads |-> NoRet]
    /\ opts = [t \in Threads |-> DefaultOptions]
    /\ snap = [t \in Threads |-> <<>>]
    /\ idx = [t \in Threads |-> 0]
    /\ errs = [t \in Threads |-> <<>>]
    /\ err = [t \in Threads |-> NoErr]
    /\ log = [t \in Threads |-> <<>>]
    /\ result = [t \in Threads |-> NoResult]
    /\ params = [t \in Threads |-> NoParams]
    /\ bags = [b \in Maps |-> {"test_key"}]
    /\ nextId = 1
    /\ regsDone = 0
    /\ files = {}
    /\ calls = <<>>

(***************************************************************************)
(* Register                                                                *)
(***************************************************************************)
\* a caller constructs a seeder and calls Register(seeder)
CallRegister(t, from, back, I) ==
    /\ pc[t] = from
    /\ nextId <= I.MaxRegs
    /\ \E n \in I.Names : arg' = [arg EXCEPT ![t] = SeederArg(Seeder(nextId, n))]
    /\ nextId' = nextId + 1
    /\ Call(t, "Register_Lock", back)
    /\ UNCHANGED <<fsVars, depVars, registryVars, tmp, ret, runVars, regsDone>>

\* Mutant: Register does not take the lock.
Register_Lock_Missing(t) ==
    /\ pc[t] = "Register_Lock"
    /\ Goto(t, "Register_read")
    /\ UNCHANGED <<fsVars, depVars, registryVars, arg, tmp, ret, runVars, nextId, regsDone>>

Register_Lock(t) ==
    /\ pc[t] = "Register_Lock"
    /\ Lock(t)
    /\ Goto(t, "Register_read")
    /\ UNCHANGED <<fsVars, depVars, seeders, arg, tmp, ret, runVars, nextId, regsDone>>

\* append(registry.seeders, seeder): the slice is read ...
Register_read(t) ==
    /\ pc[t] = "Register_read"
    /\ tmp' = [tmp EXCEPT ![t] = seeders]
    /\ Goto(t, "Register_write")
    /\ UNCHANGED <<fsVars, depVars, registryVars, arg, ret, runVars, nextId, regsDone>>

\* Mutant: the slices GetAll returned are the registry's own storage, so a
\* goroutine that holds one sees what Register stores.
Register_write_Aliased(t) ==
    /\ pc[t] = "Register_write"
    /\ seeders' = Append(tmp[t], arg[t].seeder)
    /\ ret' = [u \in DOMAIN ret |->
                 IF ret[u].kind = "slice" THEN SliceRet(seeders') ELSE ret[u]]
    /\ Goto(t, "Register_Unlock")
    /\ UNCHANGED <<fsVars, depVars, mu, arg, tmp, runVars, nextId, regsDone>>

\* Mutant: Register ignores a seeder whose name is already stored.
Register_write_Unique(t) ==
    /\ pc[t] = "Register_write"
    /\ seeders' = IF \E i \in 1 .. Len(tmp[t]) : tmp[t][i].name = arg[t].seeder.name
                  THEN tmp[t]
                  ELSE Append(tmp[t], arg[t].seeder)
    /\ Goto(t, "Register_Unlock")
    /\ UNCHANGED <<fsVars, depVars, mu, arg, tmp, ret, runVars, nextId, regsDone>>

\* ... and the grown slice is stored back into registry.seeders
Register_write(t) ==
    /\ pc[t] = "Register_write"
    /\ seeders' = Append(tmp[t], arg[t].seeder)
    /\ Goto(t, "Register_Unlock")
    /\ UNCHANGED <<fsVars, depVars, mu, arg, tmp, ret, runVars, nextId, regsDone>>

\* the deferred Unlock, and the return
Register_Unlock(t) ==
    /\ pc[t] = "Register_Unlock"
    /\ Unlock(t)
    /\ Return(t)
    /\ arg' = [arg EXCEPT ![t] = NoArg]
    /\ tmp' = [tmp EXCEPT ![t] = <<>>]
    /\ regsDone' = regsDone + 1
    /\ UNCHANGED <<fsVars, depVars, seeders, ret, runVars, nextId>>

(***************************************************************************)
(* Clear                                                                   *)
(***************************************************************************)
CallClear(t, from, back) ==
    /\ pc[t] = from
    /\ Call(t, "Clear_Lock", back)
    /\ UNCHANGED <<fsVars, depVars, registryVars, arg, tmp, ret, runVars, nextId, regsDone>>

Clear_Lock(t) ==
    /\ pc[t] = "Clear_Lock"
    /\ Lock(t)
    /\ Goto(t, "Clear_write")
    /\ UNCHANGED <<fsVars, depVars, seeders, arg, tmp, ret, runVars, nextId, regsDone>>

\* Mutant: the new slice is made with length 1: make([]Seeder, 1).
Clear_write_Length1(t) ==
    /\ pc[t] = "Clear_write"
    /\ seeders' = MakeSlice(1)
    /\ Goto(t, "Clear_Unlock")
    /\ UNCHANGED <<fsVars, depVars, mu, arg, tmp, ret, runVars, nextId, regsDone>>

\* Mutant: the new slice goes to a local variable that shadows the field.
Clear_write_Shadowed(t) ==
    /\ pc[t] = "Clear_write"
    /\ Goto(t, "Clear_Unlock")
    /\ UNCHANGED <<fsVars, depVars, registryVars, arg, tmp, ret, runVars, nextId, regsDone>>

\* registry.seeders = make([]Seeder, 0)
Clear_write(t) ==
    /\ pc[t] = "Clear_write"
    /\ seeders' = MakeSlice(0)
    /\ Goto(t, "Clear_Unlock")
    /\ UNCHANGED <<fsVars, depVars, mu, arg, tmp, ret, runVars, nextId, regsDone>>

\* Mutant: Clear returns without the deferred Unlock.
Clear_Unlock_Missing(t) ==
    /\ pc[t] = "Clear_Unlock"
    /\ Return(t)
    /\ regsDone' = 0
    /\ UNCHANGED <<fsVars, depVars, registryVars, arg, tmp, ret, runVars, nextId>>

Clear_Unlock(t) ==
    /\ pc[t] = "Clear_Unlock"
    /\ Unlock(t)
    /\ Return(t)
    /\ regsDone' = 0
    /\ UNCHANGED <<fsVars, depVars, seeders, arg, tmp, ret, runVars, nextId>>

(***************************************************************************)
(* Count                                                                   *)
(***************************************************************************)
CallCount(t) ==
    /\ pc[t] = "idle"
    /\ Call(t, "Count_RLock", "idle")
    /\ UNCHANGED <<fsVars, depVars, registryVars, arg, tmp, ret, runVars, nextId, regsDone>>

Count_RLock(t) ==
    /\ pc[t] = "Count_RLock"
    /\ RLock(t)
    /\ Goto(t, "Count_len")
    /\ UNCHANGED <<fsVars, depVars, seeders, arg, tmp, ret, runVars, nextId, regsDone>>

\* the return value len(registry.seeders) is evaluated under the read lock
Count_len(t) ==
    /\ pc[t] = "Count_len"
    /\ ret' = [ret EXCEPT ![t] = IntRet(Len(seeders))]
    /\ Goto(t, "Count_RUnlock")
    /\ UNCHANGED <<fsVars, depVars, registryVars, arg, tmp, runVars, nextId, regsDone>>

\* the deferred RUnlock, and the return; a top-level caller drops the value
Count_RUnlock(t) ==
    /\ pc[t] = "Count_RUnlock"
    /\ RUnlock(t)
    /\ Return(t)
    /\ ret' = [ret EXCEPT ![t] = NoRet]
    /\ UNCHANGED <<fsVars, depVars, seeders, arg, tmp, runVars, nextId, regsDone>>

(***************************************************************************)
(* GetAll                                                                  *)
(***************************************************************************)
CallGetAll(t) ==
    /\ pc[t] = "idle"
    /\ Call(t, "GetAll_RLock", "GetAll_returned")
    /\ UNCHANGED <<fsVars, depVars, registryVars, arg, tmp, ret, runVars, nextId, regsDone>>

\* Mutant: GetAll does not take the read lock.
GetAll_RLock_Missing(t) ==
    /\ pc[t] = "GetAll_RLock"
    /\ Goto(t, "GetAll_make")
    /\ UNCHANGED <<fsVars, depVars, registryVars, arg, tmp, ret, runVars, nextId, regsDone>>

GetAll_RLock(t) ==
    /\ pc[t] = "GetAll_RLock"
    /\ RLock(t)
    /\ Goto(t, "GetAll_make")
    /\ UNCHANGED <<fsVars, depVars, seeders, arg, tmp, ret, runVars, nextId, regsDone>>

\* seeders := make([]Seeder, len(registry.seeders))
GetAll_make(t) ==
    /\ pc[t] = "GetAll_make"
    /\ tmp' = [tmp EXCEPT ![t] = MakeSlice(Len(seeders))]
    /\ Goto(t, "GetAll_copy")
    /\ UNCHANGED <<fsVars, depVars, registryVars, arg, ret, runVars, nextId, regsDone>>

\* copy(seeders, registry.seeders)
GetAll_copy(t) ==
    /\ pc[t] = "GetAll_copy"
    /\ tmp' = [tmp EXCEPT ![t] = CopySlice(@, seeders)]
    /\ Goto(t, "GetAll_sort")
    /\ UNCHANGED <<fsVars, depVars, registryVars, arg, ret, runVars, nextId, regsDone>>

\* Mutant: the sort leaves seeders of equal names in any order, a different
\* one from call to call.
GetAll_sort_AnyTieOrder(t) ==
    /\ pc[t] = "GetAll_sort"
    /\ \E f \in [1 .. Len(tmp[t]) -> 1 .. Len(tmp[t])] :
          /\ \A i, j \in 1 .. Len(tmp[t]) : i # j => f[i] # f[j]
          /\ \A i, j \in 1 .. Len(tmp[t]) :
                i < j => ~StrLess(tmp[t][f[j]].name, tmp[t][f[i]].name)
          /\ tmp' = [tmp EXCEPT ![t] = [i \in 1 .. Len(tmp[t]) |-> tmp[t][f[i]]]]
    /\ Goto(t, "GetAll_RUnlock")
    /\ UNCHANGED <<fsVars, depVars, registryVars, arg, ret, runVars, nextId, regsDone>>

\* Mutant: the sort is done on registry.seeders as well as on the copy.
GetAll_sort_InPlace(t) ==
    /\ pc[t] = "GetAll_sort"
    /\ tmp' = [tmp EXCEPT ![t] = SortSlice(@)]
    /\ seeders' = SortSlice(seeders)
    /\ Goto(t, "GetAll_RUnlock")
    /\ UNCHANGED <<fsVars, depVars, mu, arg, ret, runVars, nextId, regsDone>>

\* sort.Slice(seeders, less)
GetAll_sort(t) ==
    /\ pc[t] = "GetAll_sort"
    /\ tmp' = [tmp EXCEPT ![t] = SortSlice(@)]
    /\ Goto(t, "GetAll_RUnlock")
    /\ UNCHANGED <<fsVars, depVars, registryVars, arg, ret, runVars, nextId, regsDone>>

\* Mutant: the deferred RUnlock is missing; GetAll returns with the read lock
\* held.
GetAll_RUnlock_Missing(t) ==
    /\ pc[t] = "GetAll_RUnlock"
    /\ Return(t)
    /\ ret' = [ret EXCEPT ![t] = SliceRet(tmp[t])]
    /\ tmp' = [tmp EXCEPT ![t] = <<>>]
    /\ UNCHANGED <<fsVars, depVars, registryVars, arg, runVars, nextId, regsDone>>

\* the deferred RUnlock, and return seeders
GetAll_RUnlock(t) ==
    /\ pc[t] = "GetAll_RUnlock"
    /\ RUnlock(t)
    /\ Return(t)
    /\ ret' = [ret EXCEPT ![t] = SliceRet(tmp[t])]
    /\ tmp' = [tmp EXCEPT ![t] = <<>>]
    /\ UNCHANGED <<fsVars, depVars, seeders, arg, runVars, nextId, regsDone>>

\* a top-level caller of GetAll holds the returned slice, then drops it
GetAll_returned(t) ==
    /\ pc[t] = "GetAll_returned"
    /\ ret' = [ret EXCEPT ![t] = NoRet]
    /\ Goto(t, "idle")
    /\ UNCHANGED <<fsVars, depVars, registryVars, arg, tmp, runVars, nextId, regsDone>>

(***************************************************************************)
(* GetByName                                                               *)
(***************************************************************************)
CallGetByName(t, I) ==
    /\ pc[t] = "idle"
    /\ \E n \in I.Names : arg' = [arg EXCEPT ![t] = NameArg(n)]
    /\ Call(t, "GetByName_RLock", "GetByName_returned")
    /\ UNCHANGED <<fsVars, depVars, registryVars, tmp, ret, runVars, nextId, regsDone>>

GetByName_RLock(t) ==
    /\ pc[t] = "GetByName_RLock"
    /\ RLock(t)
    /\ Goto(t, "GetByName_range")
    /\ UNCHANGED <<fsVars, depVars, seeders, arg, tmp, ret, runVars, nextId, regsDone>>

\* for _, seeder := range registry.seeders { if seeder.Name() == name ... }
GetByName_range(t) ==
    /\ pc[t] = "GetByName_range"
    /\ ret' = [ret EXCEPT ![t] = FirstMatch(seeders, arg[t].name)]
    /\ Goto(t, "GetByName_RUnlock")
    /\ UNCHANGED <<fsVars, depVars, registryVars, arg, tmp, runVars, nextId, regsDone>>

\* called by RunSpecific, the name stays RunSpecific's parameter
GetByName_RUnlock(t) ==
    /\ pc[t] = "GetByName_RUnlock"
    /\ RUnlock(t)
    /\ Return(t)
    /\ arg' = [arg EXCEPT ![t] =
             IF Head(stack[t]) = "Specific_GetByName_returned" THEN @ ELSE NoArg]
    /\ UNCHANGED <<fsVars, depVars, seeders, tmp, ret, runVars, nextId, regsDone>>

GetByName_returned(t) ==
    /\ pc[t] = "GetByName_returned"
    /\ ret' = [ret EXCEPT ![t] = NoRet]
    /\ Goto(t, "idle")
    /\ UNCHANGED <<fsVars, depVars, registryVars, arg, tmp, runVars, nextId, regsDone>>

(***************************************************************************)
(* A Seed body.  The caller's code: it may call back into the registry     *)
(* (Register, Clear) any number of times, then returns nil or an error.    *)
(***************************************************************************)
Seed_Register(t, I) == CallRegister(t, "Seed_body", "Seed_body", I)

Seed_Clear(t) == CallClear(t, "Seed_body", "Seed_body")

\* the db and deps the Seed call in progress was given
Received(t) ==
    LET l == SelectSeq(log[t], LAMBDA e : e.k = "seed") IN l[Len(l)]

\* The Seed body writes a key into the map it was given.  The map is the
\* caller's, and so is the Seed body.
Seed_Put(t) ==
    /\ pc[t] = "Seed_body"
    /\ Received(t).deps # 0
    /\ bags' = [bags EXCEPT ![Received(t).deps] = @ \cup {"seen"}]
    /\ UNCHANGED <<fsVars, registryVars, pc, stack, arg, tmp, ret, runVars, params,
                   nextId, regsDone>>

\* The Seed body of a batch run reads the registry: Count(), GetAll(),
\* GetByName(name).  It drops what they return.
Seed_Count(t) ==
    /\ pc[t] = "Seed_body"
    /\ \E i \in 1..Len(stack[t]) : stack[t][i] = "Run_Seed_returned"
    /\ Call(t, "Count_RLock", "Seed_body")
    /\ UNCHANGED <<fsVars, depVars, registryVars, arg, tmp, ret, runVars, nextId, regsDone>>

Seed_GetAll(t) ==
    /\ pc[t] = "Seed_body"
    /\ \E i \in 1..Len(stack[t]) : stack[t][i] = "Run_Seed_returned"
    /\ Call(t, "GetAll_RLock", "Seed_read_returned")
    /\ UNCHANGED <<fsVars, depVars, registryVars, arg, tmp, ret, runVars, nextId, regsDone>>

Seed_GetByName(t, I) ==
    /\ pc[t] = "Seed_body"
    /\ \E i \in 1..Len(stack[t]) : stack[t][i] = "Run_Seed_returned"
    /\ \E n \in I.Names : arg' = [arg EXCEPT ![t] = NameArg(n)]
    /\ Call(t, "GetByName_RLock", "Seed_read_returned")
    /\ UNCHANGED <<fsVars, depVars, registryVars, tmp, ret, runVars, nextId, regsDone>>

Seed_read_returned(t) ==
    /\ pc[t] = "Seed_read_returned"
    /\ ret' = [ret EXCEPT ![t] = NoRet]
    /\ Goto(t, "Seed_body")
    /\ UNCHANGED <<fsVars, depVars, registryVars, arg, tmp, runVars, nextId, regsDone>>

Seed_return(t, I) ==
    /\ pc[t] = "Seed_body"
    /\ \E c \in {NoErr} \cup I.Causes :
          /\ err' = [err EXCEPT ![t] = c]
          /\ log' = [log EXCEPT ![t] = Append(@, RetEvent(c))]
    /\ Return(t)
    /\ UNCHANGED <<fsVars, depVars, registryVars, arg, tmp, ret, opts, snap, idx, errs, result,
                   nextId, regsDone>>

(***************************************************************************)
(* RunAll, RunAllWithOptions                                               *)
(***************************************************************************)
\* the statement after one iteration of the for-range loop over s, now at i
LoopAt(s, i) == IF i <= Len(s) THEN "Run_OnStart" ELSE "Run_HasErrors"

\* seeders := GetAll()
CallRunAllWithOptions(t, I) ==
    /\ pc[t] = "idle"
    /\ \E o \in I.Options : opts' = [opts EXCEPT ![t] = o]
    /\ pc' = [pc EXCEPT ![t] = "GetAll_RLock"]
    /\ stack' = [stack EXCEPT ![t] = <<"Run_GetAll_returned", "idle">>]
    /\ \E d \in I.Handles, b \in I.Deps :
          params' = [params EXCEPT ![t] = [db |-> d, deps |-> b]]
    /\ UNCHANGED <<fsVars, bags, registryVars, arg, tmp, ret, snap, idx, errs, err, log, result,
                   nextId, regsDone>>

\* Mutant: RunAll passes RunOptions{ContinueOnError: true}.
CallRunAll_Continue(t, I) ==
    /\ pc[t] = "idle"
    /\ opts' = [opts EXCEPT ![t] = RunOptions(TRUE, FALSE, FALSE, FALSE)]
    /\ pc' = [pc EXCEPT ![t] = "GetAll_RLock"]
    /\ stack' = [stack EXCEPT ![t] =
             <<"Run_GetAll_returned", "RunAll_returned", "idle">>]
    /\ \E d \in I.Handles, b \in I.Deps :
          params' = [params EXCEPT ![t] = [db |-> d, deps |-> b]]
    /\ UNCHANGED <<fsVars, bags, registryVars, arg, tmp, ret, snap, idx, errs, err, log, result,
                   nextId, regsDone>>

\* RunAll(db, deps): return RunAllWithOptions(db, deps, RunOptions{ContinueOnError: false})
\* RunAllWithOptions is entered with that literal and returns into RunAll.
CallRunAll(t, I) ==
    /\ pc[t] = "idle"
    /\ opts' = [opts EXCEPT ![t] = DefaultOptions]
    /\ pc' = [pc EXCEPT ![t] = "GetAll_RLock"]
    /\ stack' = [stack EXCEPT ![t] =
             <<"Run_GetAll_returned", "RunAll_returned", "idle">>]
    /\ \E d \in I.Handles, b \in I.Deps :
          params' = [params EXCEPT ![t] = [db |-> d, deps |-> b]]
    /\ UNCHANGED <<fsVars, bags, registryVars, arg, tmp, ret, snap, idx, errs, err, log, result,
                   nextId, regsDone>>

\* errors := &SeederErrors{}, and the loop is entered
Run_GetAll_returned(t) ==
    /\ pc[t] = "Run_GetAll_returned"
    /\ snap' = [snap EXCEPT ![t] = ret[t].slice]
    /\ ret' = [ret EXCEPT ![t] = NoRet]
    /\ errs' = [errs EXCEPT ![t] = <<>>]
    /\ idx' = [idx EXCEPT ![t] = 1]
    /\ Goto(t, LoopAt(ret[t].slice, 1))
    /\ UNCHANGED <<fsVars, depVars, registryVars, arg, tmp, opts, err, log, result, nextId, regsDone>>

\* Mutant: a seeder is seeded only when there is an OnSeederStart to announce
\* it; without one the loop goes on to the next seeder.
Run_OnStart_Skips(t) ==
    /\ pc[t] = "Run_OnStart"
    /\ log' = [log EXCEPT ![t] =
                  IF opts[t].OnSeederStart
                  THEN Append(@, StartEvent(snap[t][idx[t]].name)) ELSE @]
    /\ idx' = [idx EXCEPT ![t] = IF opts[t].OnSeederStart THEN @ ELSE @ + 1]
    /\ Goto(t, IF opts[t].OnSeederStart THEN "Run_Seed" ELSE LoopAt(snap[t], idx[t] + 1))
    /\ UNCHANGED <<fsVars, depVars, registryVars, arg, tmp, ret, opts, snap, errs, err, result,
                   nextId, regsDone>>

\* if opts.OnSeederStart != nil { opts.OnSeederStart(seeder.Name()) }
Run_OnStart(t) ==
    /\ pc[t] = "Run_OnStart"
    /\ log' = [log EXCEPT ![t] =
                  IF opts[t].OnSeederStart
                  THEN Append(@, StartEvent(snap[t][idx[t]].name)) ELSE @]
    /\ Goto(t, "Run_Seed")
    /\ UNCHANGED <<fsVars, depVars, registryVars, arg, tmp, ret, opts, snap, idx, errs, err, result,
                   nextId, regsDone>>

\* Mutant: Seed is started and not waited for (go seeder.Seed(db, deps)); the
\* loop goes on to the next seeder.
Run_Seed_Go(t) ==
    /\ pc[t] = "Run_Seed"
    /\ log' = [log EXCEPT ![t] = Append(@, SeedEvent(snap[t][idx[t]], params[t]))]
    /\ idx' = [idx EXCEPT ![t] = @ + 1]
    /\ Goto(t, LoopAt(snap[t], idx[t] + 1))
    /\ UNCHANGED <<fsVars, depVars, registryVars, arg, tmp, ret, opts, snap, errs, err, result,
                   nextId, regsDone>>

\* Mutant: Seed is called with a nil map: seeder.Seed(db, nil).
Run_Seed_NilDeps(t) ==
    /\ pc[t] = "Run_Seed"
    /\ log' = [log EXCEPT ![t] =
             Append(@, SeedEvent(snap[t][idx[t]], [db |-> params[t].db, deps |-> 0]))]
    /\ Call(t, "Seed_body", "Run_Seed_returned")
    /\ UNCHANGED <<fsVars, depVars, registryVars, arg, tmp, ret, opts, snap, idx, errs, err, result,
                   nextId, regsDone>>

\* err := seeder.Seed(db, deps): the call
Run_Seed(t) ==
    /\ pc[t] = "Run_Seed"
    /\ log' = [log EXCEPT ![t] = Append(@, SeedEvent(snap[t][idx[t]], params[t]))]
    /\ Call(t, "Seed_body", "Run_Seed_returned")
    /\ UNCHANGED <<fsVars, depVars, registryVars, arg, tmp, ret, opts, snap, idx, errs, err, result,
                   nextId, regsDone>>

\* Mutant: the test is err == nil.
Run_Seed_returned_Inverted(t) ==
    /\ pc[t] = "Run_Seed_returned"
    /\ Goto(t, IF err[t] = NoErr THEN "Run_OnError" ELSE "Run_OnComplete")
    /\ UNCHANGED <<fsVars, depVars, registryVars, arg, tmp, ret, runVars, nextId, regsDone>>

\* if err != nil
Run_Seed_returned(t) ==
    /\ pc[t] = "Run_Seed_returned"
    /\ Goto(t, IF err[t] # NoErr THEN "Run_OnError" ELSE "Run_OnComplete")
    /\ UNCHANGED <<fsVars, depVars, registryVars, arg, tmp, ret, runVars, nextId, regsDone>>

\* Mutant: OnSeederError is called only after the fail-fast return.
Run_OnError_AfterReturn(t) ==
    /\ pc[t] = "Run_OnError"
    /\ log' = [log EXCEPT ![t] =
                  IF opts[t].OnSeederError /\ opts[t].ContinueOnError
                  THEN Append(@, ErrorEvent(snap[t][idx[t]].name, err[t])) ELSE @]
    /\ Goto(t, "Run_ContinueOnError")
    /\ UNCHANGED <<fsVars, depVars, registryVars, arg, tmp, ret, opts, snap, idx, errs, err, result,
                   nextId, regsDone>>

\* if opts.OnSeederError != nil { opts.OnSeederError(seeder.Name(), err) }
Run_OnError(t) ==
    /\ pc[t] = "Run_OnError"
    /\ log' = [log EXCEPT ![t] =
                  IF opts[t].OnSeederError
                  THEN Append(@, ErrorEvent(snap[t][idx[t]].name, err[t])) ELSE @]
    /\ Goto(t, "Run_ContinueOnError")
    /\ UNCHANGED <<fsVars, depVars, registryVars, arg, tmp, ret, opts, snap, idx, errs, err, result,
                   nextId, regsDone>>

\* Mutant: the fail-fast return is missing; every failure is collected.
Run_ContinueOnError_NoReturn(t) ==
    /\ pc[t] = "Run_ContinueOnError"
    /\ errs' = [errs EXCEPT ![t] = Add(@, snap[t][idx[t]].name, err[t])]
    /\ idx' = [idx EXCEPT ![t] = @ + 1]
    /\ Goto(t, LoopAt(snap[t], idx[t] + 1))
    /\ UNCHANGED <<fsVars, depVars, registryVars, arg, tmp, ret, opts, snap, err, log, result,
                   nextId, regsDone>>

\* Mutant: with ContinueOnError the loop tries the failed seeder again.
Run_ContinueOnError_Retry(t) ==
    /\ pc[t] = "Run_ContinueOnError"
    /\ IF ~opts[t].ContinueOnError
       THEN /\ result' = [result EXCEPT ![t] =
                    SeederErrorResult(SeederError(snap[t][idx[t]].name, err[t]))]
            /\ Goto(t, "Run_returned")
            /\ UNCHANGED errs
       ELSE /\ errs' = [errs EXCEPT ![t] = Add(@, snap[t][idx[t]].name, err[t])]
            /\ Goto(t, "Run_OnStart")
            /\ UNCHANGED result
    /\ UNCHANGED <<fsVars, depVars, registryVars, arg, tmp, ret, opts, snap, idx, err, log,
                   nextId, regsDone>>

\* Mutant: errors is one collection of the package, which every run in
\* progress adds to and returns.
Run_ContinueOnError_Shared(t) ==
    /\ pc[t] = "Run_ContinueOnError"
    /\ IF ~opts[t].ContinueOnError
       THEN /\ result' = [result EXCEPT ![t] =
                    SeederErrorResult(SeederError(snap[t][idx[t]].name, err[t]))]
            /\ Goto(t, "Run_returned")
            /\ UNCHANGED <<errs, idx>>
       ELSE /\ errs' = [u \in DOMAIN errs |->
                           IF u = t \/ pc[u] \in {"Run_OnStart", "Run_Seed", "Seed_body",
                                                  "Run_Seed_returned", "Run_OnError",
                                                  "Run_ContinueOnError", "Run_OnComplete",
                                                  "Run_HasErrors"}
                           THEN Add(errs[u], snap[t][idx[t]].name, err[t])
                           ELSE errs[u]]
            /\ idx' = [idx EXCEPT ![t] = @ + 1]
            /\ Goto(t, LoopAt(snap[t], idx[t] + 1))
            /\ UNCHANGED result
    /\ UNCHANGED <<fsVars, depVars, registryVars, arg, tmp, ret, opts, snap, err, log, nextId, regsDone>>

\* if !opts.ContinueOnError { return seederErr }; errors.Add(...); continue
Run_ContinueOnError(t) ==
    /\ pc[t] = "Run_ContinueOnError"
    /\ IF ~opts[t].ContinueOnError
       THEN /\ result' = [result EXCEPT ![t] =
                    SeederErrorResult(SeederError(snap[t][idx[t]].name, err[t]))]
            /\ Goto(t, "Run_returned")
            /\ UNCHANGED <<errs, idx>>
       ELSE /\ errs' = [errs EXCEPT ![t] = Add(@, snap[t][idx[t]].name, err[t])]
            /\ idx' = [idx EXCEPT ![t] = @ + 1]
            /\ Goto(t, LoopAt(snap[t], idx[t] + 1))
            /\ UNCHANGED result
    /\ UNCHANGED <<fsVars, depVars, registryVars, arg, tmp, ret, opts, snap, err, log, nextId, regsDone>>

\* Mutant: the loop reads the registry again after each seeder.
Run_OnComplete_Rescan(t) ==
    /\ pc[t] = "Run_OnComplete"
    /\ log' = [log EXCEPT ![t] =
                  IF opts[t].OnSeederComplete
                  THEN Append(@, CompleteEvent(snap[t][idx[t]].name)) ELSE @]
    /\ snap' = [snap EXCEPT ![t] = SortSlice(seeders)]
    /\ idx' = [idx EXCEPT ![t] = @ + 1]
    /\ Goto(t, LoopAt(SortSlice(seeders), idx[t] + 1))
    /\ UNCHANGED <<fsVars, depVars, registryVars, arg, tmp, ret, opts, errs, err, result,
                   nextId, regsDone>>

\* Mutant: a seeder that completed is taken out of the registry.
Run_OnComplete_Consumes(t) ==
    /\ pc[t] = "Run_OnComplete"
    /\ log' = [log EXCEPT ![t] =
                  IF opts[t].OnSeederComplete
                  THEN Append(@, CompleteEvent(snap[t][idx[t]].name)) ELSE @]
    /\ idx' = [idx EXCEPT ![t] = @ + 1]
    /\ seeders' = SelectSeq(seeders, LAMBDA s : s # snap[t][idx[t]])
    /\ Goto(t, LoopAt(snap[t], idx[t] + 1))
    /\ UNCHANGED <<fsVars, depVars, mu, arg, tmp, ret, opts, snap, errs, err, result,
                   nextId, regsDone>>

\* if opts.OnSeederComplete != nil { opts.OnSeederComplete(seeder.Name()) }
Run_OnComplete(t) ==
    /\ pc[t] = "Run_OnComplete"
    /\ log' = [log EXCEPT ![t] =
                  IF opts[t].OnSeederComplete
                  THEN Append(@, CompleteEvent(snap[t][idx[t]].name)) ELSE @]
    /\ idx' = [idx EXCEPT ![t] = @ + 1]
    /\ Goto(t, LoopAt(snap[t], idx[t] + 1))
    /\ UNCHANGED <<fsVars, depVars, registryVars, arg, tmp, ret, opts, snap, errs, err, result,
                   nextId, regsDone>>

\* Mutant: the collected failures are dropped: return nil.
Run_HasErrors_Never(t) ==
    /\ pc[t] = "Run_HasErrors"
    /\ result' = [result EXCEPT ![t] = NilResult]
    /\ Goto(t, "Run_returned")
    /\ UNCHANGED <<fsVars, depVars, registryVars, arg, tmp, ret, opts, snap, idx, errs, err, log,
                   nextId, regsDone>>

\* Mutant: return errors, without the HasErrors test.
Run_HasErrors_Always(t) ==
    /\ pc[t] = "Run_HasErrors"
    /\ result' = [result EXCEPT ![t] = SeederErrorsResult(errs[t])]
    /\ Goto(t, "Run_returned")
    /\ UNCHANGED <<fsVars, depVars, registryVars, arg, tmp, ret, opts, snap, idx, errs, err, log,
                   nextId, regsDone>>

\* Mutant: a run that collected failures goes through its snapshot again.
Run_HasErrors_Again(t) ==
    /\ pc[t] = "Run_HasErrors"
    /\ IF HasErrors(errs[t])
       THEN /\ errs' = [errs EXCEPT ![t] = <<>>]
            /\ idx' = [idx EXCEPT ![t] = 1]
            /\ Goto(t, LoopAt(snap[t], 1))
            /\ UNCHANGED result
       ELSE /\ result' = [result EXCEPT ![t] = NilResult]
            /\ Goto(t, "Run_returned")
            /\ UNCHANGED <<errs, idx>>
    /\ UNCHANGED <<fsVars, depVars, registryVars, arg, tmp, ret, opts, snap, err, log,
                   nextId, regsDone>>

\* if errors.HasErrors() { return errors }; return nil
Run_HasErrors(t) ==
    /\ pc[t] = "Run_HasErrors"
    /\ result' = [result EXCEPT ![t] =
             IF HasErrors(errs[t]) THEN SeederErrorsResult(errs[t]) ELSE NilResult]
    /\ Goto(t, "Run_returned")
    /\ UNCHANGED <<fsVars, depVars, registryVars, arg, tmp, ret, opts, snap, idx, errs, err, log,
                   nextId, regsDone>>

\* The caller has the run's result; the run's locals die with the call.
\* Called by RunAll, the result (and what the run did) is RunAll's to return.
Run_returned(t) ==
    /\ pc[t] = "Run_returned"
    /\ Return(t)
    /\ opts' = [opts EXCEPT ![t] = DefaultOptions]
    /\ snap' = [snap EXCEPT ![t] = <<>>]
    /\ idx' = [idx EXCEPT ![t] = 0]
    /\ errs' = [errs EXCEPT ![t] = <<>>]
    /\ err' = [err EXCEPT ![t] = NoErr]
    /\ IF Head(stack[t]) = "RunAll_returned"
       THEN UNCHANGED <<log, result>>
       ELSE /\ log' = [log EXCEPT ![t] = <<>>]
            /\ result' = [result EXCEPT ![t] = NoResult]
    /\ params' = [params EXCEPT ![t] =
             IF Head(stack[t]) = "RunAll_returned" THEN @ ELSE NoParams]
    /\ UNCHANGED <<fsVars, bags, registryVars, arg, tmp, ret, nextId, regsDone>>

\* the caller has RunAll's result
RunAll_returned(t) ==
    /\ pc[t] = "RunAll_returned"
    /\ Return(t)
    /\ log' = [log EXCEPT ![t] = <<>>]
    /\ result' = [result EXCEPT ![t] = NoResult]
    /\ params' = [params EXCEPT ![t] = NoParams]
    /\ UNCHANGED <<fsVars, bags, registryVars, arg, tmp, ret, opts, snap, idx, errs, err,
                   nextId, regsDone>>

(***************************************************************************)
(* RunSpecific                                                             *)
(***************************************************************************)
\* seeder, err := GetByName(name)
CallRunSpecific(t, I) ==
    /\ pc[t] = "idle"
    /\ \E n \in I.Names : arg' = [arg EXCEPT ![t] = NameArg(n)]
    /\ pc' = [pc EXCEPT ![t] = "GetByName_RLock"]
    /\ stack' = [stack EXCEPT ![t] = <<"Specific_GetByName_returned", "idle">>]
    /\ \E d \in I.Handles, b \in I.Deps :
          params' = [params EXCEPT ![t] = [db |-> d, deps |-> b]]
    /\ UNCHANGED <<fsVars, bags, registryVars, tmp, ret, runVars, nextId, regsDone>>

\* Mutant: the lookup's error is returned wrapped in a SeederError.
Specific_GetByName_returned_Wrapped(t) ==
    /\ pc[t] = "Specific_GetByName_returned"
    /\ IF ret[t].kind = "notfound"
       THEN /\ result' = [result EXCEPT ![t] =
                     SeederErrorResult(SeederError(ret[t].name, "e1"))]
            /\ Goto(t, "Specific_returned")
            /\ UNCHANGED log
       ELSE /\ log' = [log EXCEPT ![t] = Append(@, SeedEvent(ret[t].seeder, params[t]))]
            /\ Call(t, "Seed_body", "Specific_Seed_returned")
            /\ UNCHANGED result
    /\ UNCHANGED <<fsVars, depVars, registryVars, arg, tmp, ret, opts, snap, idx, errs, err,
                   nextId, regsDone>>

\* if err != nil { return err }; otherwise seeder.Seed(db, deps) is called.
\* ret[t] stays the local seeder until RunSpecific returns.
Specific_GetByName_returned(t) ==
    /\ pc[t] = "Specific_GetByName_returned"
    /\ IF ret[t].kind = "notfound"
       THEN /\ result' = [result EXCEPT ![t] = NotFoundResult(ret[t].name)]
            /\ Goto(t, "Specific_returned")
            /\ UNCHANGED log
       ELSE /\ log' = [log EXCEPT ![t] = Append(@, SeedEvent(ret[t].seeder, params[t]))]
            /\ Call(t, "Seed_body", "Specific_Seed_returned")
            /\ UNCHANGED result
    /\ UNCHANGED <<fsVars, depVars, registryVars, arg, tmp, ret, opts, snap, idx, errs, err,
                   nextId, regsDone>>

\* Mutant: RunSpecific drops the error Seed returned.
Specific_Seed_returned_Swallowed(t) ==
    /\ pc[t] = "Specific_Seed_returned"
    /\ result' = [result EXCEPT ![t] = NilResult]
    /\ Goto(t, "Specific_returned")
    /\ UNCHANGED <<fsVars, depVars, registryVars, arg, tmp, ret, opts, snap, idx, errs, err, log,
                   nextId, regsDone>>

\* if err != nil { return &SeederError{seeder.Name(), err} }; return nil
Specific_Seed_returned(t) ==
    /\ pc[t] = "Specific_Seed_returned"
    /\ result' = [result EXCEPT ![t] =
             IF err[t] # NoErr
             THEN SeederErrorResult(SeederError(ret[t].seeder.name, err[t]))
             ELSE NilResult]
    /\ Goto(t, "Specific_returned")
    /\ UNCHANGED <<fsVars, depVars, registryVars, arg, tmp, ret, opts, snap, idx, errs, err, log,
                   nextId, regsDone>>

\* the caller has RunSpecific's result; its locals die with the call
Specific_returned(t) ==
    /\ pc[t] = "Specific_returned"
    /\ Return(t)
    /\ arg' = [arg EXCEPT ![t] = NoArg]
    /\ ret' = [ret EXCEPT ![t] = NoRet]
    /\ err' = [err EXCEPT ![t] = NoErr]
    /\ log' = [log EXCEPT ![t] = <<>>]
    /\ result' = [result EXCEPT ![t] = NoResult]
    /\ params' = [params EXCEPT ![t] = NoParams]
    /\ UNCHANGED <<fsVars, bags, registryVars, tmp, opts, snap, idx, errs, nextId, regsDone>>

(***************************************************************************)
(* The error types in the hands of a caller, as the package's tests use    *)
(* them: a caller builds a *SeederError or a *SeederErrors of its own and  *)
(* calls Error() or errors.Unwrap on it.                                   *)
(***************************************************************************)
\* originalErr := errors.New(...); seederErr := &SeederError{name, originalErr}
Caller_NewSeederError(t, I) ==
    /\ pc[t] = "idle"
    /\ result[t] = NoResult
    /\ \E n \in I.Names, c \in I.Causes :
          /\ err' = [err EXCEPT ![t] = c]
          /\ result' = [result EXCEPT ![t] = SeederErrorResult(SeederError(n, c))]
    /\ UNCHANGED <<fsVars, depVars, registryVars, pc, stack, arg, tmp, ret, opts, snap, idx, errs,
                   log, nextId, regsDone>>

\* errs := &SeederErrors{}
Caller_NewSeederErrors(t) ==
    /\ pc[t] = "idle"
    /\ result[t] = NoResult
    /\ result' = [result EXCEPT ![t] = SeederErrorsResult(<<>>)]
    /\ UNCHANGED <<fsVars, depVars, registryVars, pc, stack, arg, tmp, ret, opts, snap, idx, errs,
                   err, log, nextId, regsDone>>

\* errs.Add(name, errors.New(...))
Caller_Add(t, I) ==
    /\ pc[t] = "idle"
    /\ result[t].kind = "SeederErrors"
    /\ Len(result[t].errors) < MaxErrs
    /\ \E n \in I.Names, c \in I.Causes :
          /\ result' = [result EXCEPT ![t] = SeederErrorsResult(Add(@.errors, n, c))]
          /\ log' = [log EXCEPT ![t] = Append(@, AddEvent(n, c))]
    /\ ret' = [ret EXCEPT ![t] = NoRet]
    /\ UNCHANGED <<fsVars, depVars, registryVars, pc, stack, arg, tmp, opts, snap, idx, errs, err,
                   nextId, regsDone>>

\* msg := err.Error()
Caller_Error(t) ==
    /\ pc[t] = "idle"
    /\ result[t].kind \in {"SeederError", "SeederErrors"}
    /\ ret' = [ret EXCEPT ![t] = StringRet(Error(result[t]))]
    /\ UNCHANGED <<fsVars, depVars, registryVars, pc, stack, arg, tmp, runVars, nextId, regsDone>>

\* unwrapped := errors.Unwrap(err)
Caller_Unwrap(t) ==
    /\ pc[t] = "idle"
    /\ result[t].kind \in {"SeederError", "SeederErrors"}
    /\ ret' = [ret EXCEPT ![t] = ErrorRet(Unwrap(result[t]))]
    /\ UNCHANGED <<fsVars, depVars, registryVars, pc, stack, arg, tmp, runVars, nextId, regsDone>>

ErrorTypes(t, I) ==
    \/ Caller_NewSeederError(t, I)
    \/ Caller_NewSeederErrors(t)
    \/ Caller_Add(t, I)
    \/ Caller_Error(t)
    \/ Caller_Unwrap(t)

Registry(t, I) ==
    \/ CallRegister(t, "idle", "idle", I)
    \/ Register_Lock(t)
    \/ Register_read(t)
    \/ Register_write(t)
    \/ Register_Unlock(t)
    \/ CallClear(t, "idle", "idle")
    \/ Clear_Lock(t)
    \/ Clear_write(t)
    \/ Clear_Unlock(t)
    \/ CallCount(t)
    \/ Count_RLock(t)
    \/ Count_len(t)
    \/ Count_RUnlock(t)
    \/ CallGetAll(t)
    \/ GetAll_RLock(t)
    \/ GetAll_make(t)
    \/ GetAll_copy(t)
    \/ GetAll_sort(t)
    \/ GetAll_RUnlock(t)
    \/ GetAll_returned(t)
    \/ CallGetByName(t, I)
    \/ GetByName_RLock(t)
    \/ GetByName_range(t)
    \/ GetByName_RUnlock(t)
    \/ GetByName_returned(t)

Executor(t, I) ==
    \/ CallRunAll(t, I)
    \/ CallRunAllWithOptions(t, I)
    \/ Run_GetAll_returned(t)
    \/ Run_OnStart(t)
    \/ Run_Seed(t)
    \/ Seed_return(t, I)
    \/ Run_Seed_returned(t)
    \/ Run_OnError(t)
    \/ Run_ContinueOnError(t)
    \/ Run_OnComplete(t)
    \/ Run_HasErrors(t)
    \/ Run_returned(t)
    \/ RunAll_returned(t)
    \/ CallRunSpecific(t, I)
    \/ Specific_GetByName_returned(t)
    \/ Specific_Seed_returned(t)
    \/ Specific_returned(t)

\* Seed bodies that call back into the package while a run is in progress
Reentrant(t, I) ==
    \/ Seed_Register(t, I)
    \/ Seed_Clear(t)

\* Seed bodies that read the registry while a batch run is in progress
ReentrantReads(t, I) ==
    \/ Seed_Count(t)
    \/ Seed_GetAll(t)
    \/ Seed_GetByName(t, I)
    \/ Seed_read_returned(t)

(***************************************************************************)
(* CreateSeeder: the generator of seeder files                             *)
(***************************************************************************)
\* A string is the sequence of its characters.
DigitChars == <<"0", "1", "2", "3", "4", "5", "6", "7", "8", "9">>

DotGo == <<".", "g", "o">>

\* c < '0' || c > '9' is false
IsDigit(c) == \E i \in 1 .. 10 : DigitChars[i] = c

DigitValue(c) == (CHOOSE i \in 1 .. 10 : DigitChars[i] = c) - 1

\* isNumeric(s)
isNumeric(s) == \A i \in 1 .. Len(s) : IsDigit(s[i])

\* strings.HasSuffix(s, x)
HasSuffix(s, x) == Len(s) >= Len(x) /\ SubSeq(s, Len(s) - Len(x) + 1, Len(s)) = x

\* strings.TrimSuffix(s, x)
TrimSuffix(s, x) == IF HasSuffix(s, x) THEN SubSeq(s, 1, Len(s) - Len(x)) ELSE s

\* fmt.Sscanf(prefix, "%d", &num) on a string of digits
RECURSIVE Sscanf(_)
Sscanf(s) ==
    IF s = <<>> THEN 0
    ELSE 10 * Sscanf(SubSeq(s, 1, Len(s) - 1)) + DigitValue(s[Len(s)])

\* the decimal digits of n >= 0
RECURSIVE Itoa(_)
Itoa(n) ==
    IF n < 10 THEN <<DigitChars[n + 1]>>
    ELSE Itoa(n \div 10) \o <<DigitChars[(n % 10) + 1]>>

\* fmt.Sprintf("%03d", n): at least three characters, zeros on the left
Sprintf03d(n) ==
    LET d == Itoa(n) IN
    IF Len(d) >= 3 THEN d ELSE [i \in 1 .. (3 - Len(d)) |-> "0"] \o d

\* cleanSeederName(name): without ".go", and without a leading "NNN_" or
\* fourteen-digit "..._"
cleanSeederName(name) ==
    LET n == TrimSuffix(name, DotGo)
        us == {i \in 1 .. Len(n) : n[i] = "_"}
    IN IF us = {} THEN n
       ELSE LET i == CHOOSE i \in us : \A j \in us : i <= j
                first == SubSeq(n, 1, i - 1)
            IN IF Len(first) \in {14, 3} /\ isNumeric(first)
               THEN SubSeq(n, i + 1, Len(n))
               ELSE n

\* the numbers getNextSequentialNumber reads in the directory: from the first
\* three characters of the entries that are files named *.go
NumbersIn(dir) ==
    {Sscanf(SubSeq(e.name, 1, 3)) :
        e \in {f \in dir : /\ ~f.isDir
                           /\ HasSuffix(f.name, DotGo)
                           /\ Len(f.name) >= 3
                           /\ isNumeric(SubSeq(f.name, 1, 3))}}

\* getNextSequentialNumber(dir)
getNextSequentialNumber(dir) ==
    LET maxNum == IF NumbersIn(dir) = {} THEN 0
                  ELSE CHOOSE n \in NumbersIn(dir) : \A k \in NumbersIn(dir) : k <= n
    IN maxNum + 1

\* time.Now().Format("20060102150405"), the clock standing still
Now == <<"2", "0", "2", "4", "0", "1", "0", "1", "1", "2", "0", "0", "0", "0">>

\* a directory entry; body tells which call wrote the file (0: none of them)
Entry(name, isDir, body) == [name |-> name, isDir |-> isDir, body |-> body]

\* what a call returned, with the options and the directory it was given
Returned(o, dir, prefix, path, e) ==
    [opts |-> o, dir |-> dir, prefix |-> prefix, path |-> path, err |-> e]

\* CreateSeeder(opts), opts.Dir being the one directory of the model
CreateSeeder(o) ==
    /\ Len(calls) < MaxCalls
    /\ IF o.Name = <<>>
       THEN /\ calls' = Append(calls, Returned(o, files, <<>>, <<>>, "seeder name cannot be empty"))
            /\ UNCHANGED files
       ELSE LET name == cleanSeederName(o.Name)
                prefix == IF o.Sequential
                          THEN Sprintf03d(getNextSequentialNumber(files))
                          ELSE Now
                filename == prefix \o <<"_">> \o name \o DotGo
            IN IF \E e \in files : e.name = filename
               THEN /\ calls' = Append(calls, Returned(o, files, prefix, <<>>,
                                                       "seeder file already exists"))
                    /\ UNCHANGED files
               ELSE /\ files' = {e \in files : e.name # filename}
                                    \cup {Entry(filename, FALSE, Len(calls) + 1)}
                    /\ calls' = Append(calls, Returned(o, files, prefix, filename, "nil"))
    /\ UNCHANGED <<depVars, registryVars, pc, stack, arg, tmp, ret, runVars, nextId, regsDone>>

\* the options of the calls: four names, both modes
CreateNames ==
    {<<>>, <<"a">>, <<"b">>, <<"0", "0", "1", "_", "a">>}

CreateOptions == [Name : CreateNames, Sequential : BOOLEAN]

\* what a directory may hold before the first call: files of earlier runs of
\* the generator in either mode, other files, a subdirectory
Existing ==
    {Entry(<<"0", "0", "5", "_", "a">> \o DotGo, FALSE, 0),
     Entry(<<"9", "9", "8", "_", "a">> \o DotGo, FALSE, 0),
     Entry(Now \o <<"_", "b">> \o DotGo, FALSE, 0),
     Entry(<<"m", "a", "i", "n">> \o DotGo, FALSE, 0),
     Entry(<<"5", "0", "0", "_", "a", ".", "t", "x", "t">>, FALSE, 0),
     Entry(<<"0", "0", "1", "_", "a">> \o DotGo, TRUE, 0)}

InitCreate ==
    /\ seeders = <<>>
    /\ mu = [writer |-> 0, readers |-> {}]
    /\ pc = [t \in Threads |-> "idle"]
    /\ stack = [t \in Threads |-> <<>>]
    /\ arg = [t \in Threads |-> NoArg]
    /\ tmp = [t \in Threads |-> <<>>]
    /\ ret = [t \in Threads |-> NoRet]
    /\ opts = [t \in Threads |-> DefaultOptions]
    /\ snap = [t \in Threads |-> <<>>]
    /\ idx = [t \in Threads |-> 0]
    /\ errs = [t \in Threads |-> <<>>]
    /\ err = [t \in Threads |-> NoErr]
    /\ log = [t \in Threads |-> <<>>]
    /\ result = [t \in Threads |-> NoResult]
    /\ params = [t \in Threads |-> NoParams]
    /\ bags = [b \in Maps |-> {"test_key"}]
    /\ nextId = 1
    /\ regsDone = 0
    /\ files \in SUBSET Existing
    /\ calls = <<>>

NextCreate == \E o \in CreateOptions : CreateSeeder(o)

CreateSpec == InitCreate /\ [][NextCreate]_vars

(***************************************************************************)
(* Specifications                                                          *)
(***************************************************************************)
\* Two goroutines: goroutine 1 is the host program, which uses the registry
\* and runs the executor; goroutine 2 uses the registry at the same time.
Next ==
    \/ \E t \in Threads : Registry(t, ConcInputs)
    \/ Executor(1, ConcInputs)
    \/ Reentrant(1, ConcInputs)

Spec == Init /\ [][Next]_vars

\* One goroutine whose Seed bodies do not call back into the package: every
\* combination of options, three names, two distinct causes.
NextSeq == Registry(1, SeqInputs) \/ Executor(1, SeqInputs)

SeqSpec == Init /\ [][NextSeq]_vars

\* TestConcurrentRegister: NumCallers goroutines, each inside one call of
\* Register on the empty registry, each with a seeder of its own.
Callers == 1 .. NumCallers

InitRegister ==
    /\ seeders = <<>>
    /\ mu = [writer |-> 0, readers |-> {}]
    /\ pc = [t \in Callers |-> "Register_Lock"]
    /\ stack = [t \in Callers |-> <<"idle">>]
    /\ \E f \in [Callers -> Names] :
          arg = [t \in Callers |-> SeederArg(Seeder(t, f[t]))]
    /\ tmp = [t \in Callers |-> <<>>]
    /\ ret = [t \in Callers |-> NoRet]
    /\ opts = [t \in Callers |-> DefaultOptions]
    /\ snap = [t \in Callers |-> <<>>]
    /\ idx = [t \in Callers |-> 0]
    /\ errs = [t \in Callers |-> <<>>]
    /\ err = [t \in Callers |-> NoErr]
    /\ log = [t \in Callers |-> <<>>]
    /\ result = [t \in Callers |-> NoResult]
    /\ params = [t \in Callers |-> NoParams]
    /\ bags = [b \in Maps |-> {"test_key"}]
    /\ nextId = NumCallers + 1
    /\ regsDone = 0
    /\ files = {}
    /\ calls = <<>>

NextRegister ==
    \E t \in Callers :
        \/ Register_Lock(t)
        \/ Register_read(t)
        \/ Register_write(t)
        \/ Register_Unlock(t)

RegisterSpec == InitRegister /\ [][NextRegister]_vars

\* One goroutine that only builds error values and inspects them.
NextErrors == ErrorTypes(1, SeqInputs)

ErrorsSpec == Init /\ [][NextErrors]_vars

\* One goroutine whose Seed bodies call every operation of the registry.
NextReentrant ==
    \/ Registry(1, ConcInputs)
    \/ Executor(1, ConcInputs)
    \/ Reentrant(1, ConcInputs)
    \/ ReentrantReads(1, ConcInputs)

ReentrantSpec == Init /\ [][NextReentrant]_vars

\* Two goroutines that each make batch runs while one of them registers
\* seeders: both policies, no callback, two causes of failure.
RunInputs ==
    [Names |-> TwoNames,
     Options |-> {RunOptions(c, FALSE, FALSE, FALSE) : c \in BOOLEAN},
     Causes |-> Causes, MaxRegs |-> MaxRegs, Handles |-> OneHandle, Deps |-> Maps]

Registering(t, I) ==
    \/ CallRegister(t, "idle", "idle", I)
    \/ Register_Lock(t)
    \/ Register_read(t)
    \/ Register_write(t)
    \/ Register_Unlock(t)

Batch(t, I) ==
    \/ CallRunAllWithOptions(t, I)
    \/ GetAll_RLock(t)
    \/ GetAll_make(t)
    \/ GetAll_copy(t)
    \/ GetAll_sort(t)
    \/ GetAll_RUnlock(t)
    \/ Run_GetAll_returned(t)
    \/ Run_OnStart(t)
    \/ Run_Seed(t)
    \/ Seed_return(t, I)
    \/ Run_Seed_returned(t)
    \/ Run_OnError(t)
    \/ Run_ContinueOnError(t)
    \/ Run_OnComplete(t)
    \/ Run_HasErrors(t)
    \/ Run_returned(t)

NextConcRun ==
    \/ Registering(1, RunInputs)
    \/ \E t \in Threads : Batch(t, RunInputs)

ConcRunSpec == Init /\ [][NextConcRun]_vars

\* Goroutines that call the registry's operations again and again, under fair
\* scheduling.  A goroutine that is inside an operation and can take its next
\* statement eventually takes it.  A goroutine waiting in Lock or RLock
\* eventually gets the lock if the lock keeps becoming available: RWMutex
\* holds back new readers while a writer waits, and lets the waiting readers
\* in when a writer unlocks.
Acquire(t) ==
    \/ Register_Lock(t)
    \/ Clear_Lock(t)
    \/ Count_RLock(t)
    \/ GetAll_RLock(t)
    \/ GetByName_RLock(t)

\* the statements of the operations that need no lock to be granted
Proceed(t) ==
    \/ Register_read(t)
    \/ Register_write(t)
    \/ Register_Unlock(t)
    \/ Clear_write(t)
    \/ Clear_Unlock(t)
    \/ Count_len(t)
    \/ Count_RUnlock(t)
    \/ GetAll_make(t)
    \/ GetAll_copy(t)
    \/ GetAll_sort(t)
    \/ GetAll_RUnlock(t)
    \/ GetAll_returned(t)
    \/ GetByName_range(t)
    \/ GetByName_RUnlock(t)
    \/ GetByName_returned(t)

NextLive == \E t \in Threads : Registry(t, ConcInputs)

LiveSpec ==
    /\ Init
    /\ [][NextLive]_vars
    /\ \A t \in Threads : WF_vars(Proceed(t)) /\ SF_vars(Acquire(t))

\* A goroutine that makes batch runs, its Seed bodies registering seeders,
\* while another goroutine registers seeders too; fair scheduling as in
\* LiveSpec, and every Seed body and callback returns.
RunStep(t, I) ==
    \/ Run_GetAll_returned(t)
    \/ Run_OnStart(t)
    \/ Run_Seed(t)
    \/ Seed_return(t, I)
    \/ Run_Seed_returned(t)
    \/ Run_OnError(t)
    \/ Run_ContinueOnError(t)
    \/ Run_OnComplete(t)
    \/ Run_HasErrors(t)
    \/ Run_returned(t)

NextRunLive ==
    \/ Batch(1, ConcInputs)
    \/ Seed_Register(1, ConcInputs)
    \/ \E t \in Threads : Registering(t, ConcInputs)

RunLiveSpec ==
    /\ Init
    /\ [][NextRunLive]_vars
    /\ \A t \in Threads : WF_vars(Proceed(t)) /\ SF_vars(Acquire(t))
    /\ WF_vars(RunStep(1, ConcInputs))

\* One goroutine whose runs are given one of two handles and nil or a map,
\* and whose Seed bodies write into the map they are given.
NextDeps ==
    \/ Registry(1, DepsInputs)
    \/ Executor(1, DepsInputs)
    \/ Seed_Put(1)

DepsSpec == Init /\ [][NextDeps]_vars

(***************************************************************************)
(* What a run's trace says                                                 *)
(***************************************************************************)
Range(s) == {s[i] : i \in 1 .. Len(s)}

Ids(s) == [i \in 1 .. Len(s) |-> s[i].id]

IsSeed(e) == e.k = "seed"

\* the seeders whose Seed the run invoked, in order of invocation
SeedIds(l) == Ids(SelectSeq(l, IsSeed))

IsPrefix(a, b) == Len(a) <= Len(b) /\ \A i \in 1 .. Len(a) : a[i] = b[i]

\* positions of the trace at which a Seed returned an error
FailedAt(l) == {i \in 1 .. Len(l) : l[i].k = "ret" /\ l[i].c # NoErr}

\* one SeederError per failed Seed, in execution order; the "seed" entry of
\* the failing seeder directly precedes its "ret" entry
RECURSIVE FailuresOf(_)
FailuresOf(l) ==
    IF Len(l) < 2 THEN <<>>
    ELSE LET n == Len(l)
             before == FailuresOf(SubSeq(l, 1, n - 1))
         IN IF l[n].k = "ret" /\ l[n].c # NoErr
            THEN Append(before, SeederError(l[n - 1].name, l[n].c))
            ELSE before

BatchLabels ==
    {"Run_OnStart", "Run_Seed", "Run_Seed_returned", "Run_OnError",
     "Run_ContinueOnError", "Run_OnComplete", "Run_HasErrors", "Run_returned"}

\* t is inside a batch run that has taken its snapshot
InBatch(t) == ({pc[t]} \cup Range(stack[t])) \cap BatchLabels # {}

AllCallbacks(o) == o.OnSeederStart /\ o.OnSeederComplete /\ o.OnSeederError

Running == DOMAIN pc

(***************************************************************************)
(* C1: in a fail-fast batch run, once a Seed has failed the run is on its  *)
(* way out: the failing seeder is the one at the loop position, nothing    *)
(* but its OnSeederError follows the failure in the trace (no Seed, no     *)
(* OnSeederStart, no OnSeederComplete of a later seeder), the seeders      *)
(* invoked are exactly those up to the failing one, and the value returned *)
(* is the SeederError with the failing seeder's name and cause.            *)
(***************************************************************************)
C1_FailFastStops ==
    \A t \in Running :
        (InBatch(t) /\ ~opts[t].ContinueOnError) =>
            \A i \in FailedAt(log[t]) :
                /\ pc[t] \in {"Run_Seed_returned", "Run_OnError",
                              "Run_ContinueOnError", "Run_returned"}
                /\ \A j \in (i + 1) .. Len(log[t]) : log[t][j].k = "error"
                /\ log[t][i - 1] = SeedEvent(snap[t][idx[t]], params[t])
                /\ SeedIds(log[t]) = Ids(SubSeq(snap[t], 1, idx[t]))
                /\ pc[t] = "Run_returned" =>
                       result[t] = SeederErrorResult(
                                       SeederError(snap[t][idx[t]].name, log[t][i].c))

\* a fail-fast run returned the failure of a seeder that is not the last one
C1_Witness ==
    \E t \in Running :
        /\ pc[t] = "Run_returned"
        /\ ~opts[t].ContinueOnError
        /\ AllCallbacks(opts[t])
        /\ result[t].kind = "SeederError"
        /\ 1 < idx[t] /\ idx[t] < Len(snap[t])

(***************************************************************************)
(* C2: in a continue-on-error batch run the seeders invoked are always a   *)
(* prefix of the snapshot and, when the loop is over, the whole snapshot,  *)
(* each once and in sorted order; the failures collected are exactly the   *)
(* failed Seeds (name and cause) in execution order, and they are what the *)
(* run returns.                                                            *)
(***************************************************************************)
C2_ContinueRunsAll ==
    \A t \in Running :
        (InBatch(t) /\ opts[t].ContinueOnError) =>
            LET failures == FailuresOf(log[t])
                pending == pc[t] \in {"Run_Seed_returned", "Run_OnError",
                                      "Run_ContinueOnError"} /\ err[t] # NoErr
            IN /\ IsPrefix(SeedIds(log[t]), Ids(snap[t]))
               /\ errs[t] = IF pending
                            THEN SubSeq(failures, 1, Len(failures) - 1)
                            ELSE failures
               /\ pc[t] \in {"Run_HasErrors", "Run_returned"} =>
                      SeedIds(log[t]) = Ids(snap[t])
               /\ pc[t] = "Run_returned" =>
                      result[t] = IF failures = <<>> THEN NilResult
                                  ELSE SeederErrorsResult(failures)

\* two seeders failed with different causes and a third succeeded
C2_Witness ==
    \E t \in Running :
        /\ pc[t] = "Run_returned"
        /\ opts[t].ContinueOnError
        /\ Len(snap[t]) = 3
        /\ Len(result[t].errors) = 2
        /\ result[t].errors[1].Err # result[t].errors[2].Err
        /\ log[t][Len(log[t])].k = "ret" /\ log[t][Len(log[t])].c = NoErr

(***************************************************************************)
(* C3: with all three callbacks present the trace of a batch run is a      *)
(* sequence of blocks  start(n), seed(n), ret(c), then complete(n) when    *)
(* c is nil and error(n, c) otherwise: OnSeederStart directly precedes     *)
(* every Seed, exactly one of OnSeederComplete / OnSeederError follows it  *)
(* before the next OnSeederStart and before the run returns, and each      *)
(* goes with the matching outcome.                                         *)
(***************************************************************************)
C3_CallbackOrder ==
    \A t \in Running :
        (InBatch(t) /\ AllCallbacks(opts[t])) =>
            LET l == log[t]
                closed(i) == i = 0 \/ l[i].k \in {"complete", "error"}
            IN /\ \A i \in 1 .. Len(l) :
                      CASE l[i].k = "start" -> closed(i - 1)
                        [] l[i].k = "seed" ->
                              i > 1 /\ l[i - 1] = StartEvent(l[i].name)
                        [] l[i].k = "ret" -> i > 1 /\ l[i - 1].k = "seed"
                        [] l[i].k = "complete" ->
                              /\ i > 2
                              /\ l[i - 1] = RetEvent(NoErr)
                              /\ l[i].name = l[i - 2].name
                        [] l[i].k = "error" ->
                              /\ i > 2
                              /\ l[i - 1].k = "ret" /\ l[i - 1].c # NoErr
                              /\ l[i] = ErrorEvent(l[i - 2].name, l[i - 1].c)
               /\ pc[t] \in {"Run_OnStart", "Run_HasErrors", "Run_returned"} =>
                      closed(Len(l))
               /\ LET starts == SelectSeq(l, LAMBDA e : e.k = "start")
                      reached == Len(SeedIds(l))
                  IN /\ Len(starts) = IF pc[t] = "Run_Seed" THEN reached + 1
                                       ELSE reached
                     /\ \A i \in 1 .. Len(starts) :
                            starts[i].name = snap[t][i].name

\* a run with all callbacks saw one seeder fail and a later one succeed
C3_Witness ==
    \E t \in Running :
        /\ pc[t] = "Run_returned"
        /\ AllCallbacks(opts[t])
        /\ \E i, j \in 1 .. Len(log[t]) :
              i < j /\ log[t][i].k = "error" /\ log[t][j].k = "complete"

(***************************************************************************)
(* C4: when OnSeederError is present, every failed Seed of a batch run is  *)
(* followed by exactly one OnSeederError carrying that seeder's name and   *)
(* the cause, under both policies, and OnSeederError is called for nothing *)
(* else; a fail-fast run returns only after it, with the same name and     *)
(* cause in its SeederError.                                               *)
(***************************************************************************)
C4_OnErrorAlways ==
    \A t \in Running :
        (InBatch(t) /\ opts[t].OnSeederError) =>
            LET l == log[t]
            IN /\ \A i \in FailedAt(l) :
                      IF i = Len(l)
                      THEN pc[t] \in {"Run_Seed_returned", "Run_OnError"}
                      ELSE l[i + 1] = ErrorEvent(l[i - 1].name, l[i].c)
               /\ \A j \in 1 .. Len(l) :
                      l[j].k = "error" => (j - 1) \in FailedAt(l)
               /\ (pc[t] = "Run_returned" /\ result[t].kind = "SeederError") =>
                      /\ l # <<>>
                      /\ l[Len(l)] = ErrorEvent(result[t].name, result[t].cause)

\* a fail-fast run whose only callback is OnSeederError returned a failure
C4_Witness ==
    \E t \in Running :
        /\ pc[t] = "Run_returned"
        /\ opts[t] = RunOptions(FALSE, FALSE, FALSE, TRUE)
        /\ result[t].kind = "SeederError"
        /\ result[t].cause = "e2"

(***************************************************************************)
(* C5: a batch run returns nil exactly when no Seed failed; otherwise a    *)
(* SeederError in fail-fast mode and a SeederErrors with at least one      *)
(* entry in continue mode (also for a single failure); a SeederErrors      *)
(* without entries is never returned, nor anything for an empty snapshot.  *)
(***************************************************************************)
C5_ResultKinds ==
    \A t \in Running :
        pc[t] = "Run_returned" =>
            LET failed == FailedAt(log[t]) # {}
            IN /\ (result[t].kind = "nil") <=> ~failed
               /\ (failed /\ ~opts[t].ContinueOnError) =>
                      result[t].kind = "SeederError"
               /\ (failed /\ opts[t].ContinueOnError) =>
                      result[t].kind = "SeederErrors" /\ Len(result[t].errors) >= 1
               /\ ~(result[t].kind = "SeederErrors" /\ result[t].errors = <<>>)
               /\ snap[t] = <<>> => result[t] = NilResult

\* a continue-on-error run in which exactly one of several seeders failed
C5_Witness ==
    \E t \in Running :
        /\ pc[t] = "Run_returned"
        /\ opts[t].ContinueOnError
        /\ Len(snap[t]) >= 2
        /\ result[t].kind = "SeederErrors"
        /\ Len(result[t].errors) = 1

(***************************************************************************)
(* What the registry holds                                                 *)
(***************************************************************************)
\* a <= b for strings, stated without StrLess: a is a prefix of b, or the
\* first byte at which they differ is smaller in a
StrLeq(a, b) ==
    \E k \in 0 .. Len(a) :
        /\ k <= Len(b)
        /\ \A i \in 1 .. k : a[i] = b[i]
        /\ k = Len(a) \/ (k < Len(b) /\ a[k + 1] < b[k + 1])

Ascending(s) == \A i \in 1 .. (Len(s) - 1) : StrLeq(s[i].name, s[i + 1].name)

Occurrences(s, x) == Cardinality({i \in 1 .. Len(s) : s[i] = x})

SameMultiset(a, b) ==
    \A x \in Range(a) \cup Range(b) : Occurrences(a, x) = Occurrences(b, x)

\* t is between Lock and Unlock of Register or Clear
WriterInside(t) ==
    pc[t] \in {"Register_read", "Register_write", "Register_Unlock",
               "Clear_write", "Clear_Unlock"}

\* t is between RLock and RUnlock of Count, GetAll or GetByName
ReaderInside(t) ==
    pc[t] \in {"Count_len", "Count_RUnlock", "GetAll_make", "GetAll_copy",
               "GetAll_sort", "GetAll_RUnlock", "GetByName_range",
               "GetByName_RUnlock"}

(***************************************************************************)
(* C6: the slice GetAll returns holds exactly the stored seeders (the same *)
(* multiset, as many as Count reports) in ascending order of name,         *)
(* whatever the order of the Register calls.                               *)
(***************************************************************************)
C6_GetAllSorted ==
    \A t \in Running :
        LET returned == IF pc[t] = "GetAll_RUnlock" THEN tmp[t] ELSE ret[t].slice
        IN pc[t] \in {"GetAll_RUnlock", "GetAll_returned", "Run_GetAll_returned"} =>
               /\ Len(returned) = Len(seeders)
               /\ SameMultiset(returned, seeders)
               /\ Ascending(returned)

\* three seeders "2", "10", "1" come back in another order than registered
C6_Witness ==
    \E t \in Running :
        /\ pc[t] = "GetAll_returned"
        /\ Len(seeders) = 3
        /\ {seeders[i].name : i \in 1 .. 3} = Names
        /\ ret[t].slice[1] = seeders[3]
        /\ ret[t].slice[3] = seeders[1]

(***************************************************************************)
(* C7: NumCallers goroutines call Register once each at the same time on   *)
(* the empty registry.  At every point the registry holds exactly the      *)
(* seeders of the callers that have done their append, and when all have   *)
(* returned it holds NumCallers seeders, one of each caller.               *)
(***************************************************************************)
C7_NoLostRegistration ==
    LET appended == {t \in Running : pc[t] \in {"Register_Unlock", "idle"}}
    IN /\ {seeders[i].id : i \in 1 .. Len(seeders)} = appended
       /\ Len(seeders) = Cardinality(appended)
       /\ \A t \in Running :
              pc[t] = "Register_Unlock" => seeders[Len(seeders)] = arg[t].seeder
       /\ (\A t \in Running : pc[t] = "idle") =>
              Len(seeders) = NumCallers /\ regsDone = NumCallers

\* all callers have returned, and the last caller's seeder was stored first
C7_Witness ==
    /\ \A t \in Running : pc[t] = "idle"
    /\ Len(seeders) = NumCallers
    /\ seeders[1].id = NumCallers

(***************************************************************************)
(* C8: a goroutine inside the critical section of Register or Clear holds  *)
(* the lock as writer and no other goroutine is inside any registry        *)
(* operation; a goroutine inside Count, GetAll or GetByName holds it as    *)
(* reader; and what a reader has read so far agrees with the registry as   *)
(* it is, so it never sees a Register or Clear half done.                  *)
(***************************************************************************)
C8_WritersExclude ==
    /\ \A t \in Running :
           WriterInside(t) =>
               /\ mu.writer = t
               /\ \A u \in Running \ {t} : ~WriterInside(u) /\ ~ReaderInside(u)
    /\ \A t \in Running :
           ReaderInside(t) =>
               /\ t \in mu.readers
               /\ pc[t] = "GetAll_copy" => Len(tmp[t]) = Len(seeders)
               /\ pc[t] = "GetAll_sort" => tmp[t] = seeders
               /\ pc[t] = "GetAll_RUnlock" => SameMultiset(tmp[t], seeders)
               /\ pc[t] = "Count_RUnlock" => ret[t].n = Len(seeders)
               /\ pc[t] = "GetByName_RUnlock" =>
                      ret[t] = FirstMatch(seeders, arg[t].name)

\* two readers are inside together: a run's GetAll and another goroutine's
\* Count, on a registry that is not empty
C8_Witness ==
    /\ pc[1] = "GetAll_copy"
    /\ pc[2] = "Count_RUnlock"
    /\ mu.readers = {1, 2}
    /\ Len(seeders) = 2

(***************************************************************************)
(* C9: from the moment GetAll has returned to a batch run, the run's       *)
(* snapshot is the slice GetAll returned and never changes, the seeders it *)
(* invokes are a prefix of that snapshot, and every name it reports to a   *)
(* callback is a name of the snapshot, whatever is registered or cleared   *)
(* meanwhile by another goroutine or by a Seed body.                       *)
(***************************************************************************)
C9_RunUsesSnapshot ==
    [][\A t \in Running :
          /\ (pc[t] = "Run_GetAll_returned" /\ InBatch(t)') =>
                 snap'[t] = ret[t].slice
          /\ (InBatch(t) /\ InBatch(t)') =>
                 /\ snap'[t] = snap[t]
                 /\ IsPrefix(SeedIds(log'[t]), Ids(snap[t]))
                 /\ \A i \in 1 .. Len(log'[t]) :
                        log'[t][i].k \in {"start", "complete", "error"} =>
                            \E j \in 1 .. Len(snap[t]) :
                                snap[t][j].name = log'[t][i].name]_vars

\* a run has seeded its one-seeder snapshot although a second seeder was
\* registered while it ran
C9_Witness ==
    /\ pc[1] = "Run_returned"
    /\ Len(snap[1]) = 1
    /\ SeedIds(log[1]) = Ids(snap[1])
    /\ Len(seeders) = 2
    /\ seeders[1] = snap[1][1]

(***************************************************************************)
(* C10: whenever no Register or Clear is inside its critical section, and  *)
(* so whenever Count reads, the number of stored seeders is the number of  *)
(* Register calls completed since the last completed Clear; that is the    *)
(* value Count returns.                                                    *)
(***************************************************************************)
C10_CountIsRegistrations ==
    /\ (\A t \in Running : ~WriterInside(t)) => Len(seeders) = regsDone
    /\ \A t \in Running : pc[t] = "Count_RUnlock" => ret[t].n = regsDone

\* Count reads 1: one seeder was registered before a Clear and one after
C10_Witness ==
    \E t \in Running :
        /\ pc[t] = "Count_RUnlock"
        /\ ret[t].n = 1
        /\ regsDone = 1
        /\ nextId = 3


(***************************************************************************)
(* Lookups and single runs                                                 *)
(***************************************************************************)
\* the stored seeders named n
Named(n) == {s \in Range(seeders) : s.name = n}

\* Of the stored seeders named n, the one registered first.  A seeder gets
\* its id when Register is called on it, so on one goroutine a smaller id is
\* an earlier registration.
Earliest(n) == CHOOSE s \in Named(n) : \A o \in Named(n) : s.id <= o.id

GetAllLabels ==
    {"GetAll_RLock", "GetAll_make", "GetAll_copy", "GetAll_sort",
     "GetAll_RUnlock", "GetAll_returned", "Run_GetAll_returned"}

\* t is inside GetAll, called directly or by a batch run
InGetAll(t) == pc[t] \in GetAllLabels

SpecificLabels ==
    {"Specific_GetByName_returned", "Specific_Seed_returned", "Specific_returned"}

\* t is inside RunSpecific
InSpecific(t) == ({pc[t]} \cup Range(stack[t])) \cap SpecificLabels # {}

(***************************************************************************)
(* C11: when several stored seeders have the name asked for, GetByName     *)
(* returns the one registered earliest since the last Clear; no step of    *)
(* GetAll or of a batch run changes the stored order, so the same holds    *)
(* for a lookup made after them; RunSpecific seeds that seeder and no      *)
(* other.                                                                  *)
(***************************************************************************)
C11_FirstRegisteredWins ==
    /\ [](\A t \in Running :
            /\ (pc[t] = "GetByName_RUnlock" /\ Named(arg[t].name) # {})
                  => ret[t] = SeederRet(Earliest(arg[t].name))
            /\ (InSpecific(t) /\ log[t] # <<>>)
                  => SeedIds(log[t]) = <<Earliest(log[t][1].name).id>>)
    /\ [][\A t \in Running :
            (InGetAll(t) \/ InBatch(t)) => seeders' = seeders]_vars

\* a lookup that found the first of two seeders of one name, the stored order
\* being different from the sorted order GetAll computes
C11_Witness ==
    /\ pc[1] = "GetByName_RUnlock"
    /\ Len(seeders) = 3
    /\ seeders[1].name = seeders[3].name
    /\ seeders[1].name = arg[1].name
    /\ StrLess(seeders[2].name, seeders[1].name)
    /\ ret[1].kind = "seeder"
    /\ ret[1].seeder = seeders[1]


(***************************************************************************)
(* C12: GetByName fails with "seeder not found: <name>" exactly when no    *)
(* stored seeder has the name, and otherwise returns a stored seeder of    *)
(* that name; when no Register has completed since the last Clear it       *)
(* fails for every name, whatever was registered before.                   *)
(***************************************************************************)
C12_NotFoundIffAbsent ==
    \A t \in Running :
        pc[t] = "GetByName_RUnlock" =>
            /\ ret[t].kind \in {"seeder", "notfound"}
            /\ ret[t].kind = "notfound" <=> Named(arg[t].name) = {}
            /\ ret[t].kind = "notfound" => ret[t] = NotFoundRet(arg[t].name)
            /\ ret[t].kind = "seeder" => ret[t].seeder \in Named(arg[t].name)
            /\ regsDone = 0 => ret[t].kind = "notfound"

\* a lookup fails for a name that was registered and then cleared: the batch
\* run of goroutine 1 still holds a seeder of that name in its snapshot
C12_Witness ==
    /\ pc[2] = "GetByName_RUnlock"
    /\ ret[2] = NotFoundRet(arg[2].name)
    /\ seeders = <<>>
    /\ InBatch(1)
    /\ \E i \in 1 .. Len(snap[1]) : snap[1][i].name = arg[2].name


(***************************************************************************)
(* C13: RunSpecific with the name of a stored seeder calls Seed exactly    *)
(* once, on the seeder GetByName returned for that name, calls no          *)
(* callback, and returns nil when that Seed returned nil, else the         *)
(* SeederError made of the seeder's name and the error Seed returned.      *)
(***************************************************************************)
C13_SpecificRunsOne ==
    \A t \in Running :
        (InSpecific(t) /\ Named(arg[t].name) # {}) =>
            LET u == ret[t].seeder IN
            /\ \A i \in 1 .. Len(log[t]) : log[t][i].k \in {"seed", "ret"}
            /\ pc[t] = "Specific_GetByName_returned" =>
                  /\ ret[t].kind = "seeder"
                  /\ u.name = arg[t].name
                  /\ log[t] = <<>>
            /\ pc[t] = "Seed_body" => log[t] = <<SeedEvent(u, params[t])>>
            /\ pc[t] = "Specific_Seed_returned" =>
                  log[t] = <<SeedEvent(u, params[t]), RetEvent(err[t])>>
            /\ pc[t] = "Specific_returned" =>
                  /\ log[t] = <<SeedEvent(u, params[t]), RetEvent(err[t])>>
                  /\ u \in Named(arg[t].name)
                  /\ err[t] = NoErr => result[t] = NilResult
                  /\ err[t] # NoErr =>
                        result[t] = SeederErrorResult(SeederError(arg[t].name, err[t]))

\* RunSpecific has returned the failure of the one seeder it ran, the
\* registry holding another seeder as well
C13_Witness ==
    /\ pc[1] = "Specific_returned"
    /\ Len(seeders) >= 2
    /\ result[1].kind = "SeederError"
    /\ result[1].name = arg[1].name
    /\ result[1].cause = "e2"
    /\ SeedIds(log[1]) = <<ret[1].seeder.id>>

(***************************************************************************)
(* C14: RunSpecific with a name no stored seeder has returns the error of  *)
(* the lookup, "seeder not found: <name>", as it is (not a SeederError),   *)
(* calls no Seed, and leaves the registry as it was.                       *)
(***************************************************************************)
C14_SpecificNotFound ==
    /\ [](\A t \in Running :
            (InSpecific(t) /\ Named(arg[t].name) = {}) =>
                /\ log[t] = <<>>
                /\ pc[t] \in {"Specific_GetByName_returned", "Specific_returned"}
                      => ret[t] = NotFoundRet(arg[t].name)
                /\ pc[t] = "Specific_returned"
                      => result[t] = NotFoundResult(arg[t].name))
    /\ [][\A t \in Running :
            (InSpecific(t) /\ Named(arg[t].name) = {}) => seeders' = seeders]_vars

\* RunSpecific has returned "not found" for a name, the registry holding
\* seeders of other names
C14_Witness ==
    /\ pc[1] = "Specific_returned"
    /\ result[1] = NotFoundResult(arg[1].name)
    /\ log[1] = <<>>
    /\ Len(seeders) >= 2
    /\ Named(arg[1].name) = {}


(***************************************************************************)
(* What a fail-fast run without callbacks does, as a function of the       *)
(* snapshot s and of the results o of the Seed calls made                  *)
(***************************************************************************)
\* the results of the Seed calls of a trace, in order
RECURSIVE Outcomes(_)
Outcomes(l) ==
    IF l = <<>> THEN <<>>
    ELSE IF Head(l).k = "ret" THEN <<Head(l).c>> \o Outcomes(Tail(l))
    ELSE Outcomes(Tail(l))

\* Seed on s[1], its result, Seed on s[2], its result, ...
FailFastTrace(s, o, p) ==
    [i \in 1 .. 2 * Len(o) |->
        IF i % 2 = 1 THEN SeedEvent(s[(i + 1) \div 2], p) ELSE RetEvent(o[i \div 2])]

\* the first failure, wrapped with the name of its seeder; nil without one
FailFastResult(s, o) ==
    IF \E i \in 1 .. Len(o) : o[i] # NoErr
    THEN LET i == CHOOSE i \in 1 .. Len(o) :
                      /\ o[i] # NoErr
                      /\ \A j \in 1 .. (i - 1) : o[j] = NoErr
         IN SeederErrorResult(SeederError(s[i].name, o[i]))
    ELSE NilResult

\* the calls end with the first failure, or with the last seeder
FailFastEnds(s, o) ==
    /\ Len(o) <= Len(s)
    /\ \A i \in 1 .. (Len(o) - 1) : o[i] = NoErr
    /\ Len(o) < Len(s) => (o # <<>> /\ o[Len(o)] # NoErr)

\* t runs, or has run, RunAllWithOptions on behalf of RunAll
ViaRunAll(t) == "RunAll_returned" \in ({pc[t]} \cup Range(stack[t]))

(***************************************************************************)
(* C15: RunAll and RunAllWithOptions with ContinueOnError false and no     *)
(* callback make the same Seed calls and return the same result for the    *)
(* same registry content and the same Seed results: in both, the trace and *)
(* the result are the same function of the sorted snapshot and of the      *)
(* results of the Seed calls, and RunAll returns to its caller what its    *)
(* RunAllWithOptions call returned.                                        *)
(***************************************************************************)
C15_RunAllIsFailFast ==
    /\ [](\A t \in Running :
            (pc[t] = "Run_returned" /\ (ViaRunAll(t) \/ opts[t] = DefaultOptions)) =>
                LET o == Outcomes(log[t]) IN
                /\ FailFastEnds(snap[t], o)
                /\ log[t] = FailFastTrace(snap[t], o, params[t])
                /\ result[t] = FailFastResult(snap[t], o))
    /\ [][\A t \in Running :
            (pc[t] = "Run_returned" /\ ViaRunAll(t)) =>
                /\ pc'[t] = "RunAll_returned"
                /\ log'[t] = log[t]
                /\ result'[t] = result[t]]_vars

\* RunAll has stopped at the failure of the second of three seeders
C15_Witness ==
    /\ pc[1] = "Run_returned"
    /\ ViaRunAll(1)
    /\ Len(snap[1]) = 3
    /\ Outcomes(log[1]) = <<NoErr, "e2">>
    /\ result[1] = SeederErrorResult(SeederError(snap[1][2].name, "e2"))


\* a batch run that went through its whole snapshot
RanThrough(t) ==
    /\ pc[t] = "Run_returned"
    /\ opts[t].ContinueOnError \/ result[t] = NilResult

(***************************************************************************)
(* C16: Register accepts a seeder whose name is already stored.  Every     *)
(* Register adds its seeder at the end of the registry, whatever the names *)
(* stored; GetAll returns all stored seeders, those of equal names         *)
(* included; a batch run that goes through its snapshot calls Seed exactly *)
(* once on each of them.                                                   *)
(***************************************************************************)
C16_DuplicatesKept ==
    \A t \in Running :
        /\ pc[t] = "Register_Unlock" =>
              /\ seeders = Append(tmp[t], arg[t].seeder)
              /\ Len(seeders) = regsDone + 1
        /\ pc[t] = "GetAll_RUnlock" => SameMultiset(tmp[t], seeders)
        /\ InBatch(t) => SameMultiset(snap[t], seeders)
        /\ RanThrough(t) =>
              \A s \in Range(seeders) : Occurrences(SeedIds(log[t]), s.id) = 1

\* a batch run has seeded the two stored seeders, which have the same name
C16_Witness ==
    /\ RanThrough(1)
    /\ Len(seeders) = 2
    /\ seeders[1].name = seeders[2].name
    /\ seeders[1].id # seeders[2].id
    /\ Range(SeedIds(log[1])) = {seeders[1].id, seeders[2].id}


(***************************************************************************)
(* C17: within one run, a batch run under either policy or RunSpecific,    *)
(* Seed is called at most once on each stored seeder: no seeder occurs     *)
(* twice among the run's Seed calls, and once a Seed has failed that       *)
(* seeder is not seeded again by the run.                                  *)
(***************************************************************************)
C17_SeededAtMostOnce ==
    \A t \in Running :
        (InBatch(t) \/ InSpecific(t)) =>
            /\ \A s \in Range(seeders) : Occurrences(SeedIds(log[t]), s.id) <= 1
            /\ \A i \in FailedAt(log[t]) :
                  \A j \in (i + 1) .. Len(log[t]) :
                      IsSeed(log[t][j]) => log[t][j].id # log[t][i - 1].id

\* a run that continued after a failure: it has seeded the seeder after the
\* failed one, and not the failed one again
C17_Witness ==
    /\ InBatch(1)
    /\ opts[1].ContinueOnError
    /\ Len(SeedIds(log[1])) = 3
    /\ \E i \in FailedAt(log[1]) : i < Len(log[1]) /\ log[1][i - 1].id = snap[1][1].id
    /\ \A s \in Range(seeders) : Occurrences(SeedIds(log[1]), s.id) = 1


(***************************************************************************)
(* The error values                                                        *)
(***************************************************************************)
\* the causes a caller passed to Add, in call order
Added(t) == [i \in 1 .. Len(log[t]) |-> log[t][i].c]

(***************************************************************************)
(* C18: SeederErrors.Error() is "no errors" for no failure; for one        *)
(* failure that failure's message "seeder <name> failed: <cause>"; for     *)
(* N >= 2 failures "<N> seeders failed: <name> (and <N-1> more)" with the  *)
(* name of the failure that was added first, in call order of Add,         *)
(* whatever the order of the names.                                        *)
(***************************************************************************)
C18_ErrorsMessage ==
    \A t \in Running :
        (ret[t].kind = "string" /\ result[t].kind = "SeederErrors") =>
            LET N == Len(log[t]) IN
            /\ N = 0 => ret[t].msg = <<Text("no errors")>>
            /\ N = 1 => ret[t].msg = <<Text("seeder "), Str(log[t][1].name),
                                       Text(" failed: "), Val(log[t][1].c)>>
            /\ N >= 2 => ret[t].msg = <<Num(N), Text(" seeders failed: "),
                                        Str(log[t][1].name), Text(" (and "),
                                        Num(N - 1), Text(" more)")>>

\* the message of three failures, the first added having the greatest name
C18_Witness ==
    /\ ret[1].kind = "string"
    /\ result[1].kind = "SeederErrors"
    /\ Len(log[1]) = 3
    /\ StrLess(log[1][2].name, log[1][1].name)
    /\ StrLess(log[1][3].name, log[1][1].name)
    /\ ret[1].msg[3] = Str(log[1][1].name)


(***************************************************************************)
(* C19 as the specification states it: errors.Unwrap gives the original    *)
(* cause for both error types -- on a SeederError the error it was built   *)
(* with, on a SeederErrors that holds failures one of the causes that were *)
(* added to it.                                                            *)
(***************************************************************************)
C19_BothUnwrap ==
    \A t \in Running :
        ret[t].kind = "error" =>
            /\ result[t].kind = "SeederError" => ret[t].err = err[t]
            /\ (result[t].kind = "SeederErrors" /\ log[t] # <<>>)
                  => ret[t].err \in Range(Added(t))

(***************************************************************************)
(* C19, amended: errors.Unwrap on a SeederError gives exactly the error it *)
(* was built with.  SeederErrors has no Unwrap method: errors.Unwrap on it *)
(* gives nil, whatever it holds; the causes are reached through its Errors *)
(* field, whose i-th element unwraps to the cause of the i-th Add.         *)
(***************************************************************************)
C19_OnlySeederErrorUnwraps ==
    \A t \in Running :
        ret[t].kind = "error" =>
            /\ result[t].kind = "SeederError" =>
                  /\ err[t] # NoErr
                  /\ ret[t].err = err[t]
            /\ result[t].kind = "SeederErrors" =>
                  /\ ret[t].err = NoErr
                  /\ Len(result[t].errors) = Len(log[t])
                  /\ \A i \in 1 .. Len(log[t]) :
                        SeederError_Unwrap(result[t].errors[i]) = log[t][i].c

\* errors.Unwrap has returned nil on a SeederErrors that holds two failures
C19_Witness ==
    /\ ret[1].kind = "error"
    /\ result[1].kind = "SeederErrors"
    /\ Added(1) = <<"e1", "e2">>
    /\ ret[1].err = NoErr


(***************************************************************************)
(* C20: once Clear has returned and until the next Register, the registry  *)
(* is empty whatever was registered before: Count returns 0, GetAll        *)
(* returns an empty slice, and a batch run started then takes an empty     *)
(* snapshot, calls no Seed and no callback and returns nil.  Count then    *)
(* returns the number of Register calls completed since that Clear.        *)
(***************************************************************************)
C20_ClearResets ==
    \A t \in Running :
        /\ pc[t] = "Clear_Unlock" => seeders = <<>>
        /\ (regsDone = 0 /\ \A u \in Running : ~WriterInside(u)) => seeders = <<>>
        /\ pc[t] = "Count_RUnlock" => ret[t] = IntRet(regsDone)
        /\ (regsDone = 0 /\ pc[t] = "GetAll_RUnlock") => tmp[t] = <<>>
        /\ (regsDone = 0 /\ pc[t] = "GetAll_returned") => ret[t] = SliceRet(<<>>)
        /\ (regsDone = 0 /\ InBatch(t)) =>
              /\ snap[t] = <<>>
              /\ log[t] = <<>>
              /\ pc[t] \in {"Run_HasErrors", "Run_returned"}
              /\ pc[t] = "Run_returned" => result[t] = NilResult

\* a batch run, with all callbacks set, has returned nil without a Seed or a
\* callback after a Clear that removed two or more registered seeders
C20_Witness ==
    /\ pc[1] = "Run_returned"
    /\ AllCallbacks(opts[1])
    /\ regsDone = 0
    /\ nextId > 2
    /\ seeders = <<>>
    /\ log[1] = <<>>
    /\ result[1] = NilResult


(***************************************************************************)
(* What a run is given                                                     *)
(***************************************************************************)
\* t is inside RunAll, RunAllWithOptions or RunSpecific
InRun(t) ==
    ({pc[t]} \cup Range(stack[t])) \cap
        ({"Run_GetAll_returned", "RunAll_returned"} \cup BatchLabels \cup SpecificLabels)
    # {}

(***************************************************************************)
(* C21: every Seed call of RunAll, RunAllWithOptions and RunSpecific is    *)
(* given exactly the db and the deps its caller passed to the run; the     *)
(* run's own parameters do not change while it runs; no statement of the   *)
(* package writes into a dependency map, only a Seed body does; and once   *)
(* the run has returned the goroutine holds neither.                       *)
(***************************************************************************)
C21_DepsPassedThrough ==
    /\ [](\A t \in Running :
            /\ InRun(t) =>
                  \A i \in 1 .. Len(log[t]) :
                      IsSeed(log[t][i]) =>
                          /\ log[t][i].db = params[t].db
                          /\ log[t][i].deps = params[t].deps
            /\ pc[t] = "idle" => params[t] = NoParams)
    /\ [][/\ \A t \in Running : (InRun(t) /\ InRun(t)') => params'[t] = params[t]
          /\ bags' # bags =>
                \E t \in Running : pc[t] = "Seed_body" /\ pc'[t] = "Seed_body"]_vars

\* the second Seed call of a batch run that was given handle 2 and the map:
\* it is given the same two, although the first Seed body wrote into the map
C21_Witness ==
    /\ pc[1] = "Seed_body"
    /\ InBatch(1)
    /\ params[1] = [db |-> 2, deps |-> 1]
    /\ Len(SeedIds(log[1])) = 2
    /\ Received(1).db = 2
    /\ Received(1).deps = 1
    /\ bags[1] = {"test_key", "seen"}


StoredAt(x) == CHOOSE i \in 1 .. Len(seeders) : seeders[i] = x

\* r is the stored seeders in the one order the registry's content fixes:
\* ascending names, seeders of equal names in the order they were registered
InFixedOrder(r) ==
    /\ SameMultiset(r, seeders)
    /\ \A i, j \in 1 .. Len(r) :
          i < j => \/ StrLess(r[i].name, r[j].name)
                   \/ /\ r[i].name = r[j].name
                      /\ StoredAt(r[i]) < StoredAt(r[j])

(***************************************************************************)
(* C23: the order of execution is a function of the registrations made.    *)
(* Every GetAll returns the stored seeders in one order that the           *)
(* registry's content fixes, seeders of equal names included, and every    *)
(* batch run calls Seed along that order.                                  *)
(***************************************************************************)
C23_OrderIsDetermined ==
    \A t \in Running :
        /\ pc[t] = "GetAll_RUnlock" => InFixedOrder(tmp[t])
        /\ pc[t] \in {"GetAll_returned", "Run_GetAll_returned"}
              => InFixedOrder(ret[t].slice)
        /\ InBatch(t) =>
              /\ InFixedOrder(snap[t])
              /\ IsPrefix(SeedIds(log[t]), Ids(snap[t]))

\* a batch run over three seeders, two of one name registered around a
\* smaller name, has called Seed on all three
C23_Witness ==
    /\ InBatch(1)
    /\ Len(seeders) = 3
    /\ seeders[1].name = seeders[3].name
    /\ StrLess(seeders[2].name, seeders[1].name)
    /\ SeedIds(log[1]) = <<seeders[2].id, seeders[1].id, seeders[3].id>>


(***************************************************************************)
(* The states of a batch run                                               *)
(***************************************************************************)
\* Pending: called, the snapshot not yet taken.  Running: in the loop or at
\* the test after it.  Then the run has returned, Succeeded when no Seed
\* call of the run failed, Failed when one did.  "none": no batch run.
Phase(t) ==
    IF "Run_GetAll_returned" \in ({pc[t]} \cup Range(stack[t])) THEN "Pending"
    ELSE IF ({pc[t]} \cup Range(stack[t])) \cap (BatchLabels \ {"Run_returned"}) # {}
         THEN "Running"
    ELSE IF pc[t] \in {"Run_returned", "RunAll_returned"}
         THEN IF FailedAt(log[t]) = {} THEN "Succeeded" ELSE "Failed"
    ELSE "none"

PhaseSteps ==
    {<<"none", "Pending">>, <<"Pending", "Running">>, <<"Running", "Succeeded">>,
     <<"Running", "Failed">>, <<"Succeeded", "none">>, <<"Failed", "none">>}

(***************************************************************************)
(* C24: a batch run goes Pending, Running, then Succeeded or Failed, and   *)
(* no other way.  Having returned it stays as it is until its caller moves *)
(* on: no further Seed or callback, the same result.  It ends Succeeded    *)
(* exactly when it returns nil and Failed exactly when it returns an       *)
(* error.                                                                  *)
(***************************************************************************)
C24_RunStateMachine ==
    /\ [](\A t \in Running :
            /\ Phase(t) = "Succeeded" <=>
                  (pc[t] \in {"Run_returned", "RunAll_returned"} /\ result[t] = NilResult)
            /\ Phase(t) = "Failed" <=>
                  /\ pc[t] \in {"Run_returned", "RunAll_returned"}
                  /\ result[t].kind \in {"SeederError", "SeederErrors"})
    /\ [][\A t \in Running :
            /\ Phase(t)' # Phase(t) => <<Phase(t), Phase(t)'>> \in PhaseSteps
            /\ (Phase(t) \in {"Succeeded", "Failed"} /\ Phase(t)' = Phase(t))
                  => (log'[t] = log[t] /\ result'[t] = result[t])]_vars

\* a run that continued after a failure has ended Failed, having seeded all
\* three seeders of its snapshot
C24_Witness ==
    /\ Phase(1) = "Failed"
    /\ opts[1].ContinueOnError
    /\ Len(SeedIds(log[1])) = 3
    /\ Len(result[1].errors) = 1


\* how many entries of kind k the trace l has
CountOf(l, k) == Cardinality({i \in 1 .. Len(l) : l[i].k = k})

\* For each entry of the trace l, the seeder of the snapshot (its position)
\* the entry belongs to, n Seed calls coming before l: OnSeederStart opens a
\* seeder's turn, the Seed call follows, then its return and a callback.
RECURSIVE TurnsFrom(_, _)
TurnsFrom(l, n) ==
    IF l = <<>> THEN <<>>
    ELSE IF Head(l).k = "seed" THEN <<n + 1>> \o TurnsFrom(Tail(l), n + 1)
    ELSE IF Head(l).k = "start" THEN <<n + 1>> \o TurnsFrom(Tail(l), n)
    ELSE <<n>> \o TurnsFrom(Tail(l), n)

Turns(l) == TurnsFrom(l, 0)

(***************************************************************************)
(* C25: within a batch run the seeders have their turns one after another. *)
(* At most one Seed call is in progress, and only while the run is inside  *)
(* it; a Seed call is followed by its return before anything else happens; *)
(* the callbacks and the Seed call of one seeder all come before the first *)
(* of the next, and each is about the seeder whose turn it is.             *)
(***************************************************************************)
C25_OneSeederAtATime ==
    \A t \in Running :
        InBatch(t) =>
            LET l == log[t]
                turn == Turns(l)
                open == CountOf(l, "seed") - CountOf(l, "ret")
            IN /\ CountOf(l, "seed") >= CountOf(l, "ret")
               /\ open = (IF pc[t] = "Seed_body" THEN 1 ELSE 0)
               /\ \A i \in 1 .. (Len(l) - 1) :
                     /\ IsSeed(l[i]) => l[i + 1].k = "ret"
                     /\ turn[i] <= turn[i + 1]
               /\ \A i \in 1 .. Len(l) :
                     /\ turn[i] \in 1 .. Len(snap[t])
                     /\ l[i].k \in {"start", "complete", "error"}
                           => l[i].name = snap[t][turn[i]].name
                     /\ IsSeed(l[i]) => l[i].id = snap[t][turn[i]].id

\* the second seeder's Seed call is in progress, the first seeder's Seed and
\* callbacks all before it in the trace
C25_Witness ==
    /\ InBatch(1)
    /\ pc[1] = "Seed_body"
    /\ AllCallbacks(opts[1])
    /\ Len(log[1]) = 6
    /\ log[1][4].k = "complete"
    /\ log[1][5].k = "start"
    /\ Turns(log[1])[4] = 1
    /\ Turns(log[1])[5] = 2


(***************************************************************************)
(* The lock and the runs                                                   *)
(***************************************************************************)
\* t holds registry.mu, as the writer or as a reader
Holds(t) == mu.writer = t \/ t \in mu.readers

\* the statements at which a goroutine asks for registry.mu
LockLabels ==
    {"Register_Lock", "Clear_Lock", "Count_RLock", "GetAll_RLock", "GetByName_RLock"}

\* the statements of a run outside its GetAll or GetByName call: the loop
\* with its callbacks, the Seed bodies, the returns
OutsideRegistry ==
    (BatchLabels \cup SpecificLabels) \cup {"Seed_body", "Seed_read_returned", "RunAll_returned"}

(***************************************************************************)
(* C26: registry.mu is not held while a Seed body or a callback runs.  A   *)
(* run holds it at none of its statements outside GetAll and GetByName, so *)
(* where a Seed body asks for it by calling Register, Clear, Count,        *)
(* GetByName or GetAll the lock is free and the call goes through: a run   *)
(* in progress always has a next step.  The run then goes on along its     *)
(* original snapshot, whatever the calls did to the registry.              *)
(***************************************************************************)
C26_NoLockDuringSeed ==
    \A t \in {1} :
        /\ pc[t] \in OutsideRegistry => (~Holds(t) /\ mu.writer = 0 /\ mu.readers = {})
        /\ pc[t] \in LockLabels => (mu.writer = 0 /\ mu.readers = {})
        /\ pc[t] # "idle" => ENABLED NextReentrant
        /\ InBatch(t) =>
              /\ IsPrefix(SeedIds(log[t]), Ids(snap[t]))
              /\ pc[t] = "Run_returned" /\ (opts[t].ContinueOnError \/ result[t] = NilResult)
                    => SeedIds(log[t]) = Ids(snap[t])

\* inside the first Seed body of a batch run over two seeders, after a Clear
\* called from that body, Count called from the body is about to return 0
C26_Witness ==
    /\ pc[1] = "Count_RUnlock"
    /\ Head(stack[1]) = "Seed_body"
    /\ InBatch(1)
    /\ Len(snap[1]) = 2
    /\ Len(SeedIds(log[1])) = 1
    /\ ret[1] = IntRet(0)
    /\ 1 \in mu.readers


(***************************************************************************)
(* C27: GetAll does not reorder the registry's own storage.  Every step of *)
(* GetAll, called directly or by a batch run, and by whichever goroutine,  *)
(* leaves registry.seeders as it was, element for element, so for every    *)
(* name GetByName's walk of the stored seeders finds after the step what   *)
(* it would have found before it.                                          *)
(***************************************************************************)
C27_StorageKeepsInsertionOrder ==
    [][\A t \in Threads :
          (pc[t] \in GetAllLabels /\ pc'[t] # pc[t]) =>
              /\ Ids(seeders') = Ids(seeders)
              /\ \A n \in Names : FirstMatch(seeders', n) = FirstMatch(seeders, n)]_vars

\* GetAll is about to return a sorted copy whose first element is not the
\* first stored seeder: the storage is in insertion order, which is not the
\* sorted order
C27_Witness ==
    /\ pc[1] = "GetAll_RUnlock"
    /\ Len(seeders) = 2
    /\ Len(tmp[1]) = 2
    /\ tmp[1][1] = seeders[2]
    /\ tmp[1][2] = seeders[1]
    /\ StrLess(seeders[2].name, seeders[1].name)


\* the stored seeders are in the order their Register calls were made
StoredInCallOrder == \A i \in 1 .. (Len(seeders) - 1) : seeders[i].id < seeders[i + 1].id

(***************************************************************************)
(* C28: the executor never changes the registry.  No step of RunAll,       *)
(* RunAllWithOptions or RunSpecific, the call and the return included,     *)
(* changes registry.seeders; and when no Seed body and no other goroutine  *)
(* calls Register or Clear, the registry holds throughout a batch run, and *)
(* when the run returns, exactly the seeders of the snapshot taken at its  *)
(* start, as many of them and in registration order, whichever Seed calls  *)
(* failed and whatever the options.                                        *)
(***************************************************************************)
C28_ExecutorLeavesRegistry ==
    /\ [](\A t \in {1} :
            InBatch(t) =>
                /\ Len(seeders) = Len(snap[t])
                /\ SameMultiset(seeders, snap[t])
                /\ StoredInCallOrder)
    /\ [][\A t \in {1} : (InRun(t) \/ InRun(t)') => seeders' = seeders]_vars

\* a batch run that continued past a failure returns; two seeders are stored,
\* in the reverse of the order in which the run seeded them
C28_Witness ==
    /\ pc[1] = "Run_returned"
    /\ result[1].kind = "SeederErrors"
    /\ Len(seeders) = 2
    /\ SeedIds(log[1]) = <<seeders[2].id, seeders[1].id>>


(***************************************************************************)
(* Runs with and without callbacks                                         *)
(***************************************************************************)
\* the Seed calls of a trace and their results, the callbacks left out
SeedCalls(l) == SelectSeq(l, LAMBDA e : e.k \in {"seed", "ret"})

\* the kinds of the callbacks a trace holds
Invoked(l) == {l[i].k : i \in 1 .. Len(l)} \ {"seed", "ret"}

\* the callbacks the options hold
Present(o) ==
    (IF o.OnSeederStart THEN {"start"} ELSE {})
        \cup (IF o.OnSeederComplete THEN {"complete"} ELSE {})
        \cup (IF o.OnSeederError THEN {"error"} ELSE {})

\* what a run that collects its failures returns
CollectResult(s, o) ==
    LET fs == FailuresOf(FailFastTrace(s, o, NoParams)) IN
    IF fs = <<>> THEN NilResult ELSE SeederErrorsResult(fs)

(***************************************************************************)
(* C29: callbacks are pure observers.  The Seed calls a batch run makes    *)
(* and the result it returns are one function of the snapshot, of the      *)
(* results of the Seed calls and of ContinueOnError, in which the          *)
(* callbacks do not occur: so a run with any of OnSeederStart,             *)
(* OnSeederComplete and OnSeederError absent makes the calls and returns   *)
(* the result of the run with all three present.  A callback that is       *)
(* absent from the options is at no point of the run found in its trace.   *)
(***************************************************************************)
C29_CallbacksObserve ==
    \A t \in Running :
        InBatch(t) =>
            /\ Invoked(log[t]) \subseteq Present(opts[t])
            /\ pc[t] = "Run_returned" =>
                  LET o == Outcomes(log[t]) IN
                  /\ SeedCalls(log[t]) = FailFastTrace(snap[t], o, params[t])
                  /\ IF opts[t].ContinueOnError
                     THEN /\ Len(o) = Len(snap[t])
                          /\ result[t] = CollectResult(snap[t], o)
                     ELSE /\ FailFastEnds(snap[t], o)
                          /\ result[t] = FailFastResult(snap[t], o)

\* a run with OnSeederComplete only has gone through two seeders, the first
\* of which failed: one callback in its trace, none for the failure
C29_Witness ==
    /\ pc[1] = "Run_returned"
    /\ opts[1] = RunOptions(TRUE, FALSE, TRUE, FALSE)
    /\ Len(snap[1]) = 2
    /\ Outcomes(log[1]) = <<"e1", NoErr>>
    /\ Invoked(log[1]) = {"complete"}
    /\ Len(log[1]) = 5
    /\ result[1] = SeederErrorsResult(<<SeederError(snap[1][1].name, "e1")>>)


(***************************************************************************)
(* Runs side by side                                                       *)
(***************************************************************************)
\* the statements of a batch run at which every failure so far has been
\* dealt with
BetweenSeeders == {"Run_OnStart", "Run_HasErrors", "Run_returned"}

\* the positions of the snapshot whose Seed failed in this trace
FailedUnits(l) == {i \in 1 .. Len(Outcomes(l)) : Outcomes(l)[i] # NoErr}

(***************************************************************************)
(* C30: two batch runs in progress at once share no run state.  Under      *)
(* every interleaving each run seeds along its own snapshot, and the       *)
(* failures it has collected, and returns, are those of its own Seed calls *)
(* and of no other run's: one SeederError per seeder of its snapshot whose *)
(* Seed failed in this run, with that seeder's name and the cause this     *)
(* run's call returned, in the order of the snapshot.                      *)
(***************************************************************************)
C30_RunsShareNothing ==
    \A t \in Threads :
        InBatch(t) =>
            LET o == Outcomes(log[t]) IN
            /\ IsPrefix(SeedIds(log[t]), Ids(snap[t]))
            /\ (pc[t] \in BetweenSeeders /\ opts[t].ContinueOnError) =>
                  /\ errs[t] = FailuresOf(log[t])
                  /\ Len(errs[t]) = Cardinality(FailedUnits(log[t]))
                  /\ \A i \in FailedUnits(log[t]) :
                        \E j \in 1 .. Len(errs[t]) :
                            errs[t][j] = SeederError(snap[t][i].name, o[i])
            /\ pc[t] = "Run_returned" =>
                  result[t] = IF opts[t].ContinueOnError
                              THEN CollectResult(snap[t], o)
                              ELSE FailFastResult(snap[t], o)

\* two runs over the same two seeders return at the same time, one with the
\* failure of the first seeder, the other with the failure of the second
C30_Witness ==
    /\ pc[1] = "Run_returned"
    /\ pc[2] = "Run_returned"
    /\ Len(snap[1]) = 2
    /\ snap[1] = snap[2]
    /\ opts[1].ContinueOnError
    /\ opts[2].ContinueOnError
    /\ Outcomes(log[1]) = <<"e1", NoErr>>
    /\ Outcomes(log[2]) = <<NoErr, "e2">>
    /\ result[1] = SeederErrorsResult(<<SeederError(snap[1][1].name, "e1")>>)
    /\ result[2] = SeederErrorsResult(<<SeederError(snap[2][2].name, "e2")>>)


(***************************************************************************)
(* Termination                                                             *)
(***************************************************************************)
\* the statements between an operation's Lock or RLock and its unlock
HoldingLabels ==
    {"Register_read", "Register_write", "Register_Unlock", "Clear_write", "Clear_Unlock",
     "Count_len", "Count_RUnlock", "GetAll_make", "GetAll_copy", "GetAll_sort",
     "GetAll_RUnlock", "GetByName_range", "GetByName_RUnlock"}

(***************************************************************************)
(* C31: every operation of the registry releases the lock when it returns. *)
(* A goroutine holds registry.mu exactly between the Lock or RLock of the  *)
(* operation it is in and that operation's unlock, so when no goroutine is *)
(* inside an operation the lock is free; and under fair scheduling every   *)
(* call of Register, Clear, Count, GetByName and GetAll, made by any of    *)
(* the goroutines at any time, returns to its caller.                      *)
(***************************************************************************)
C31_LockReleasedAndCallsReturn ==
    /\ [](\A t \in Threads : Holds(t) <=> pc[t] \in HoldingLabels)
    /\ []((\A t \in Threads : pc[t] = "idle") => (mu.writer = 0 /\ mu.readers = {}))
    /\ \A t \in Threads : (pc[t] # "idle") ~> (pc[t] = "idle")

\* Register waits for the lock while another goroutine, inside GetAll, holds
\* it as a reader
C31_Witness ==
    /\ pc[1] = "Register_Lock"
    /\ pc[2] = "GetAll_sort"
    /\ mu.readers = {2}
    /\ Len(seeders) = 1


(***************************************************************************)
(* C32: a batch run terminates.  Its snapshot, of n seeders, does not      *)
(* change while it runs, it calls Seed at most n times, under either       *)
(* policy, and, every Seed body and callback returning, it returns to its  *)
(* caller, also while its own Seed bodies and another goroutine register   *)
(* seeders.                                                                *)
(***************************************************************************)
C32_RunTerminates ==
    /\ [](InBatch(1) => Len(SeedIds(log[1])) <= Len(snap[1]))
    /\ [][(InBatch(1) /\ InBatch(1)') => snap'[1] = snap[1]]_vars
    /\ InRun(1) ~> (pc[1] = "Run_returned")
    /\ (pc[1] = "Run_returned") ~> ~InRun(1)

\* a run over a snapshot of one seeder is in its only Seed body, and another
\* seeder has been registered since it took the snapshot
C32_Witness ==
    /\ pc[1] = "Seed_body"
    /\ InBatch(1)
    /\ Len(snap[1]) = 1
    /\ Len(seeders) = 2
    /\ SeedIds(log[1]) = Ids(snap[1])


(***************************************************************************)
(* The generator's numbering                                               *)
(***************************************************************************)
\* the calls in sequential mode that created a file
Numbered == {i \in 1 .. Len(calls) : calls[i].opts.Sequential /\ calls[i].err = "nil"}

\* every call in sequential mode computed its prefix as the largest number
\* read in the directory, plus one, in at least three digits
PrefixIsMaxPlusOne ==
    \A i \in 1 .. Len(calls) :
        (calls[i].opts.Sequential /\ calls[i].opts.Name # <<>>) =>
            calls[i].prefix = Sprintf03d(getNextSequentialNumber(calls[i].dir))

\* no call changed or removed an entry it found in the directory
NothingOverwritten ==
    /\ \A i \in 1 .. Len(calls) : \A e \in calls[i].dir : e \in files
    /\ \A i \in 1 .. Len(calls) :
          calls[i].err = "nil" => ~\E e \in calls[i].dir : e.name = calls[i].path

\* the prefixes of successive calls go up, none is used twice
PrefixesIncrease ==
    \A i, j \in Numbered :
        i < j => Sscanf(calls[i].prefix) < Sscanf(calls[j].prefix)

(***************************************************************************)
(* C33: in sequential mode CreateSeeder names the new file with the        *)
(* prefix max+1, zero-padded to three digits, max being the largest number *)
(* read from the first three characters of the .go files of the directory  *)
(* (0 without one); successive calls in a directory get strictly           *)
(* increasing prefixes, none used twice, and no call overwrites a file.    *)
(***************************************************************************)
C33_SequentialPrefixes ==
    /\ PrefixIsMaxPlusOne
    /\ NothingOverwritten
    /\ PrefixesIncrease

\* two calls in sequential mode, one after the other in a directory that
\* held a file numbered 998 or more, have each created a file, both with the
\* prefix 1000
C33_Witness ==
    \E i, j \in Numbered :
        /\ i < j
        /\ calls[i].prefix = <<"1", "0", "0", "0">>
        /\ calls[j].prefix = <<"1", "0", "0", "0">>
        /\ calls[i].path # calls[j].path
        /\ getNextSequentialNumber(files) = 1000

====
